---------------------------- MODULE Spec2Model ----------------------------
(***************************************************************************)
(* Model of the cosmic-ext-rdp-broker: X.224 Connection Request parsing,   *)
(* the byte proxy, the session registry and the routing of connections.    *)
(***************************************************************************)
EXTENDS Integers, Sequences, FiniteSets, TLC

(***************************************************************************)
(* Generic helpers on byte strings (sequences of 0..255).                  *)
(***************************************************************************)
Min(S) == CHOOSE x \in S : \A y \in S : x <= y

Max(S) == CHOOSE x \in S : \A y \in S : x >= y

IsPrefix(p, s) == Len(p) <= Len(s) /\ SubSeq(s, 1, Len(p)) = p

\* str::find on bytes: 0-based offset of the first occurrence, -1 for None.
Find(hay, needle) ==
    LET hits == {i \in 0..(Len(hay) - Len(needle)) :
                    SubSeq(hay, i + 1, i + Len(needle)) = needle}
    IN IF hits = {} THEN -1 ELSE Min(hits)

Repeat(b, n) == [i \in 1..n |-> b]

(***************************************************************************)
(* UTF-8, as std::str::from_utf8 / chars() / to_lowercase() see it.        *)
(***************************************************************************)
IsCont(b) == b >= 128 /\ b <= 191

\* Length of the well-formed UTF-8 sequence starting at 1-based index i,
\* 0 when the bytes at i are not well-formed.
CharLenAt(b, i) ==
    LET c == b[i]
        n == Len(b)
    IN  IF c < 128 THEN 1
        ELSE IF c >= 194 /\ c <= 223
            THEN IF i + 1 <= n /\ IsCont(b[i + 1]) THEN 2 ELSE 0
        ELSE IF c >= 224 /\ c <= 239
            THEN IF /\ i + 2 <= n
                    /\ IsCont(b[i + 1]) /\ IsCont(b[i + 2])
                    /\ (c = 224 => b[i + 1] >= 160)
                    /\ (c = 237 => b[i + 1] <= 159)
                 THEN 3 ELSE 0
        ELSE IF c >= 240 /\ c <= 244
            THEN IF /\ i + 3 <= n
                    /\ IsCont(b[i + 1]) /\ IsCont(b[i + 2]) /\ IsCont(b[i + 3])
                    /\ (c = 240 => b[i + 1] >= 144)
                    /\ (c = 244 => b[i + 1] <= 143)
                 THEN 4 ELSE 0
        ELSE 0

CodePointAt(b, i) ==
    LET k == CharLenAt(b, i)
    IN  IF k = 1 THEN b[i]
        ELSE IF k = 2 THEN (b[i] - 192) * 64 + (b[i + 1] - 128)
        ELSE IF k = 3
            THEN (b[i] - 224) * 4096 + (b[i + 1] - 128) * 64 + (b[i + 2] - 128)
        ELSE (b[i] - 240) * 262144 + (b[i + 1] - 128) * 4096
                + (b[i + 2] - 128) * 64 + (b[i + 3] - 128)

RECURSIVE Utf8ValidFrom(_, _)
Utf8ValidFrom(b, i) ==
    IF i > Len(b) THEN TRUE
    ELSE IF CharLenAt(b, i) = 0 THEN FALSE
    ELSE Utf8ValidFrom(b, i + CharLenAt(b, i))

\* std::str::from_utf8(..).ok() succeeds.
Utf8Valid(b) == Utf8ValidFrom(b, 1)

RECURSIVE CharsFrom(_, _)
CharsFrom(b, i) ==
    IF i > Len(b) THEN <<>>
    ELSE <<CodePointAt(b, i)>> \o CharsFrom(b, i + CharLenAt(b, i))

\* str::chars() of a valid string: its code points.
Chars(b) == CharsFrom(b, 1)

EncodeChar(cp) ==
    IF cp < 128 THEN <<cp>>
    ELSE IF cp < 2048 THEN <<192 + (cp \div 64), 128 + (cp % 64)>>
    ELSE IF cp < 65536
        THEN <<224 + (cp \div 4096), 128 + ((cp \div 64) % 64), 128 + (cp % 64)>>
    ELSE <<240 + (cp \div 262144), 128 + ((cp \div 4096) % 64),
           128 + ((cp \div 64) % 64), 128 + (cp % 64)>>

RECURSIVE EncodeAll(_)
EncodeAll(cps) ==
    IF cps = <<>> THEN <<>> ELSE EncodeChar(Head(cps)) \o EncodeAll(Tail(cps))

\* str::is_char_boundary for a 0-based byte offset.
IsCharBoundary(b, idx) ==
    \/ idx = 0
    \/ idx = Len(b)
    \/ idx < Len(b) /\ ~IsCont(b[idx + 1])

\* char::to_lowercase, for code points below U+0250 (Basic Latin, Latin-1
\* and the one Latin Extended-A letter whose lowercase is two code points).
ToLowercaseChar(cp) ==
    IF cp >= 65 /\ cp <= 90 THEN <<cp + 32>>
    ELSE IF cp >= 192 /\ cp <= 222 /\ cp # 215 THEN <<cp + 32>>
    ELSE IF cp = 304 THEN <<105, 775>>
    ELSE <<cp>>

RECURSIVE LowerChars(_)
LowerChars(cps) ==
    IF cps = <<>> THEN <<>>
    ELSE ToLowercaseChar(Head(cps)) \o LowerChars(Tail(cps))

\* str::to_lowercase, as bytes.
to_lowercase(b) == EncodeAll(LowerChars(Chars(b)))

IsAsciiAlphanumeric(cp) ==
    \/ cp >= 48 /\ cp <= 57
    \/ cp >= 65 /\ cp <= 90
    \/ cp >= 97 /\ cp <= 122

\* char::is_alphanumeric (Unicode Alphabetic or Numeric), for code points
\* below U+0250.
is_alphanumeric(cp) ==
    \/ IsAsciiAlphanumeric(cp)
    \/ cp \in {170, 178, 179, 181, 185, 186, 188, 189, 190}
    \/ cp >= 192 /\ cp <= 591 /\ cp # 215 /\ cp # 247

\* char::is_whitespace (Unicode White_Space).
is_whitespace(cp) ==
    \/ cp >= 9 /\ cp <= 13
    \/ cp \in {32, 133, 160, 5760, 8232, 8233, 8239, 8287, 12288}
    \/ cp >= 8192 /\ cp <= 8202

\* str::trim on code points.
trim(cps) ==
    LET keep == {i \in 1..Len(cps) : ~is_whitespace(cps[i])}
    IN IF keep = {} THEN <<>> ELSE SubSeq(cps, Min(keep), Max(keep))

(***************************************************************************)
(* x224.rs                                                                 *)
(***************************************************************************)
\* "cookie: mstshash="
CookiePrefix ==
    <<99, 111, 111, 107, 105, 101, 58, 32,
      109, 115, 116, 115, 104, 97, 115, 104, 61>>

CRLF == <<13, 10>>

MaxUsernameLen == 64

NoneUser == [kind |-> "none", name |-> <<>>]

PanicUser == [kind |-> "panic", name |-> <<>>]

SomeUser(n) == [kind |-> "some", name |-> n]

\* The character test of the username validation.
is_safe_char(c) == is_alphanumeric(c) \/ c = 95 \/ c = 45 \/ c = 46

\* The validation of the trimmed cookie value (a sequence of code points).
validate_username(cps) ==
    IF cps = <<>> THEN NoneUser
    ELSE IF ~(\A i \in 1..Len(cps) : is_safe_char(cps[i])) THEN NoneUser
    ELSE IF Len(EncodeAll(cps)) > MaxUsernameLen THEN NoneUser
    ELSE SomeUser(EncodeAll(cps))

extract_cookie_username(payload) ==
    IF Len(payload) <= 6 THEN NoneUser
    ELSE
    LET cookie_data == SubSeq(payload, 7, Len(payload))
    IN  IF ~Utf8Valid(cookie_data) THEN NoneUser
        ELSE
        LET lower == to_lowercase(cookie_data)
            start == Find(lower, CookiePrefix)
            value_start == start + Len(CookiePrefix)
        IN  IF start = -1 THEN NoneUser
            \* &cookie_str[value_start..] with an offset taken from `lower`
            ELSE IF value_start > Len(cookie_data)
                    \/ ~IsCharBoundary(cookie_data, value_start)
                THEN PanicUser
            ELSE
            LET remaining == SubSeq(cookie_data, value_start + 1, Len(cookie_data))
                crlf == Find(remaining, CRLF)
                end == IF crlf = -1 THEN Len(remaining) ELSE crlf
            IN validate_username(trim(Chars(SubSeq(remaining, 1, end))))

TpktVersion == 3

MinTpktLength == 7

MaxTpktLength == 8192

CrTpduCode == 14

ErrCR(why) ==
    [ok |-> FALSE, err |-> why, username |-> NoneUser,
     raw_packet |-> <<>>, consumed |-> 0]

\* A replay packet that leaves the TPKT header out.
build_raw_packet_no_header(tpkt, payload) == payload

\* The complete raw packet handed on for replay.
build_raw_packet(tpkt, payload) == tpkt \o payload

\* stream: the bytes the client sends before it stops sending.
read_connection_request(stream) ==
    IF Len(stream) < 4 THEN ErrCR("tpkt_header")
    ELSE
    LET tpkt == SubSeq(stream, 1, 4)
        total_length == tpkt[3] * 256 + tpkt[4]
    IN  IF tpkt[1] # TpktVersion THEN ErrCR("version")
        ELSE IF total_length < MinTpktLength THEN ErrCR("too_small")
        ELSE IF total_length > MaxTpktLength THEN ErrCR("too_large")
        ELSE IF Len(stream) < total_length THEN ErrCR("payload")
        ELSE
        LET payload == SubSeq(stream, 5, total_length)
        IN  IF Len(payload) < 2 THEN ErrCR("short")
            ELSE IF payload[2] \div 16 # CrTpduCode THEN ErrCR("tpdu")
            ELSE [ok |-> TRUE, err |-> "",
                  username |-> extract_cookie_username(payload),
                  raw_packet |-> build_raw_packet(tpkt, payload),
                  consumed |-> total_length]


(***************************************************************************)
(* State.  The first group is one client connection seen as a byte stream  *)
(* (x224.rs, proxy.rs); the second group is the broker (session.rs,        *)
(* broker.rs, dbus.rs, spawner.rs).                                        *)
(***************************************************************************)
VARIABLES
    clientOut,    \* every byte the client sends on its connection, in order
    cookieValue,  \* the literal cookie value inside clientOut, or NoCookie
    clientPos,    \* number of bytes of clientOut taken off the client socket
    cr,           \* the X224ConnectionRequest read_connection_request returned
    serverIn,     \* bytes delivered to the per-user server, in order
    cpc           \* position of the connection in read / proxy_connection

connVars == <<clientOut, cookieValue, clientPos, cr, serverIn, cpc>>

(***************************************************************************)
(* The broker's state.                                                     *)
(***************************************************************************)
VARIABLES
    config,       \* BrokerConfig: port range, max_sessions, session_policy
    phase,        \* main(): "load" before load_state has run, then "run"
    sessions,     \* RegistryInner.sessions: username -> SessionEntry
    stateFile,    \* the entries in the JSON state file
    backends,     \* running per-user servers: username of the unit -> port, listening
    now,          \* now_unix(), counted in periods of the idle sweep
    pc,           \* per route task: position in handle_connection
    tuser,        \* per route task: username
    existing,     \* per route task: the entry registry.get returned
    tport,        \* per route task: port (allocated, or of the existing entry)
    result,       \* per route task: how handle_connection returned
    log,          \* per route task: the operations it performed, in order
    sweepPc,      \* idle_cleanup_task: position
    sweepList,    \* idle_cleanup_task: idle_users still to process
    sweepUnit,    \* idle_cleanup_task: unit_name of the entry remove returned
    termPc,       \* terminate_session: position
    termCalls,    \* terminate_session: calls made so far
    termUnit      \* terminate_session: unit_name of the entry remove returned

regVars == <<sessions, stateFile, backends>>

taskVars == <<pc, tuser, existing, tport, result, log>>

sweepVars == <<sweepPc, sweepList, sweepUnit>>

termVars == <<termPc, termCalls, termUnit>>

brokerVars ==
    <<config, phase, sessions, stateFile, backends, now, pc, tuser, existing,
      tport, result, log, sweepPc, sweepList, sweepUnit, termPc,
      termCalls, termUnit>>

(***************************************************************************)
(* State of the RDP server daemon (cosmic-ext-rdp-server): the EGFX state  *)
(* shared by bridge and controller, the display and its update stream, and *)
(* the daemon's run loop with its D-Bus interface.                         *)
(***************************************************************************)
VARIABLES
    shared,       \* EgfxInner behind SharedEgfx, with the pipeline server's state
    display,      \* LiveDisplay: width, height, whether an EgfxController is set
    updates,      \* LiveDisplayUpdates of the current connection
    sent,         \* the ServerEvent::DvcOutput events of the latest sending step
    returned,     \* what next_update returned last
    daemon,       \* main(): position in the run loop, cfg, the bound listener
    cfgFile,      \* what load_and_merge_config reads now
    cmdQueue,     \* DaemonCommands in the channel from D-Bus to main()
    dbusReply,    \* the reply to the latest Reload or Stop call
    zgfx,         \* zgfx_wrap_messages: the messages handed in, what came out
    input,        \* EiInput: keyboard capability, lock_state, the keys injected
    locks,        \* the two mutexes of the server, and where each thread is in its call
    comp,         \* FrameCompositor::run: its channels, monitor slots and frames
    dvc           \* the graphics channel of the connection, as the RDP library sees it

displayVars == <<shared, display, updates, sent, returned>>

daemonVars == <<daemon, cfgFile, cmdQueue, dbusReply>>

auxVars == <<locks, comp, dvc>>

ioVars == <<zgfx, input, auxVars>>

serverVars == <<displayVars, daemonVars, ioVars>>

\* History, not program state: per username, the time at which
\* handle_disconnect last set the session Idle.  The broker records none.
VARIABLE idleSince

histVars == <<idleSince>>

vars == <<connVars, brokerVars, serverVars, histVars>>

(***************************************************************************)
(* Client byte streams.                                                    *)
(***************************************************************************)
\* Number of alphabet atoms in an enumerated cookie value.
MaxValueAtoms == 2

\* Number of bytes the client sends after its Connection Request.
MaxTailLen == 2

\* Not a byte string: no cookie value was put into the stream.
NoCookie == <<-1>>

\* LI, CR|CDT, DST-REF, SRC-REF, CLASS as in tests::parse_cookie_username.
X224Header == <<30, 224, 0, 0, 0, 0>>

\* "Cookie: mstshash="
CookieKey ==
    <<67, 111, 111, 107, 105, 101, 58, 32,
      109, 115, 116, 115, 104, 97, 115, 104, 61>>

\* "COOKIE: MSTSHASH="
CookieKeyUpper ==
    <<67, 79, 79, 75, 73, 69, 58, 32,
      77, 83, 84, 83, 72, 65, 83, 72, 61>>

\* a Z 7 _ . - ; space e-acute(U+00E9) and a byte that is not UTF-8
ValueAtoms ==
    {<<97>>, <<90>>, <<55>>, <<95>>, <<46>>, <<45>>, <<59>>, <<32>>,
     <<195, 169>>, <<255>>}

RECURSIVE ValuesUpTo(_)
ValuesUpTo(n) ==
    IF n = 0 THEN {<<>>}
    ELSE LET shorter == ValuesUpTo(n - 1)
         IN shorter \cup {v \o a : v \in shorter, a \in ValueAtoms}

CookieValues ==
    ValuesUpTo(MaxValueAtoms)
        \cup {Repeat(97, MaxUsernameLen), Repeat(97, MaxUsernameLen + 1),
              Repeat(97, MaxUsernameLen - 1) \o <<195, 169>>}

Tpkt(version, payload) ==
    <<version, 0, (Len(payload) + 4) \div 256, (Len(payload) + 4) % 256>>
        \o payload

Tails == {Repeat(1, n) \o Repeat(2, 1) : n \in 0..(MaxTailLen - 1)} \cup {<<>>}

\* A well-formed Connection Request carrying `value` as its cookie.
CookieRequest(pre, key, value, post) ==
    Tpkt(TpktVersion, X224Header \o pre \o key \o value \o post)

CookieStreams ==
    {[out |-> CookieRequest(<<>>, CookieKey, v, CRLF) \o tl, value |-> v] :
        v \in CookieValues, tl \in Tails}
    \cup
    {[out |-> CookieRequest(pre, key, v, post), value |-> v] :
        pre \in {<<>>, <<196, 176>>, <<120, 13, 10>>},
        key \in {CookieKey, CookieKeyUpper},
        v \in {<<>>, <<97>>, <<32, 97, 32>>, <<97, 59>>, <<195, 169, 97>>},
        post \in {<<>>, CRLF, CRLF \o <<1, 0, 8, 0>>}}

MalformedStreams ==
    {[out |-> s, value |-> NoCookie] : s \in
        {<<>>, <<3, 0>>,
         Tpkt(2, X224Header \o CookieKey \o <<97>> \o CRLF),
         <<3, 0, 0, 6, 2, 224>>,
         <<3, 0, 32, 1, 30, 224, 0, 0>>,
         <<3, 0, 0, 20, 30, 224, 0>>,
         Tpkt(TpktVersion, <<30, 208, 0, 0, 0, 0>> \o CookieKey \o <<97>> \o CRLF),
         Tpkt(TpktVersion, <<30, 224, 0>>),
         Tpkt(TpktVersion, X224Header),
         Tpkt(TpktVersion, X224Header \o <<1, 0, 8, 0, 3, 0, 0, 0>>)}}

ConnStreams == CookieStreams \cup MalformedStreams

NoCR == ErrCR("unread")


(***************************************************************************)
(* One connection as a byte stream: read_connection_request, then (once    *)
(* the connection has been routed) proxy_connection.                       *)
(***************************************************************************)
ConnInit ==
    /\ \E c \in ConnStreams : clientOut = c.out /\ cookieValue = c.value
    /\ clientPos = 0
    /\ cr = NoCR
    /\ serverIn = <<>>
    /\ cpc = "read"

\* handle_connection step 1: read the Connection Request off the socket.
ConnRead ==
    /\ cpc = "read"
    /\ cr' = read_connection_request(clientOut)
    /\ clientPos' = cr'.consumed
    /\ cpc' = IF ~cr'.ok THEN "dropped"
              ELSE IF cr'.username.kind = "panic" THEN "panicked"
              ELSE IF cr'.username.kind = "none" THEN "dropped"
              ELSE "route"
    /\ UNCHANGED <<clientOut, cookieValue, serverIn, brokerVars, serverVars, histVars>>

\* handle_connection steps 2-4 for this connection: a backend port was
\* found for the username, or routing failed and the connection is dropped.
ConnRouted ==
    /\ cpc = "route"
    /\ cpc' \in {"connect", "dropped"}
    /\ UNCHANGED <<clientOut, cookieValue, clientPos, cr, serverIn, brokerVars, serverVars, histVars>>

\* proxy_connection: TcpStream::connect(server_addr)
ConnProxyConnect ==
    /\ cpc = "connect"
    /\ cpc' \in {"write", "closed"}
    /\ UNCHANGED <<clientOut, cookieValue, clientPos, cr, serverIn, brokerVars, serverVars, histVars>>

\* proxy_connection: server.write_all(initial_packet); an I/O error may
\* leave any proper prefix of the packet written.
ConnWriteInitial ==
    /\ cpc = "write"
    /\ \/ /\ serverIn' = serverIn \o cr.raw_packet
          /\ cpc' = "copy"
       \/ /\ \E k \in 0..(Len(cr.raw_packet) - 1) :
                 serverIn' = serverIn \o SubSeq(cr.raw_packet, 1, k)
          /\ cpc' = "closed"
    /\ UNCHANGED <<clientOut, cookieValue, clientPos, cr, brokerVars, serverVars, histVars>>

\* copy_bidirectional, client to server: the next bytes off the client
\* socket are written to the server socket.
ConnCopy ==
    /\ cpc = "copy"
    /\ clientPos < Len(clientOut)
    /\ \E n \in 1..(Len(clientOut) - clientPos) :
          /\ serverIn' = serverIn \o SubSeq(clientOut, clientPos + 1, clientPos + n)
          /\ clientPos' = clientPos + n
    /\ UNCHANGED <<clientOut, cookieValue, cr, cpc, brokerVars, serverVars, histVars>>

\* copy_bidirectional returns: EOF on either side, or an error.
ConnClose ==
    /\ cpc = "copy"
    /\ cpc' = "closed"
    /\ UNCHANGED <<clientOut, cookieValue, clientPos, cr, serverIn, brokerVars, serverVars, histVars>>

ConnNext ==
    \/ ConnRead
    \/ ConnRouted
    \/ ConnProxyConnect
    \/ ConnWriteInitial
    \/ ConnCopy
    \/ ConnClose


(***************************************************************************)
(* Bounds of the broker model.                                             *)
(***************************************************************************)
\* Route tasks that can be in flight at once.
Tasks == {1, 2}

\* Largest number of ports in a configured range.
MaxPorts == 2

\* Largest configured max_sessions.
MaxSessionLimit == 2

\* The clock, in sweep periods, stops advancing here.
MaxNow == 1

\* A longer run of the clock, for an idle timeout of one sweep period.
MaxLongNow == 2

\* An idle_timeout_secs of one sweep period.
LongIdleTimeout == 1

\* Configured idle_timeout_secs, in sweep periods.
IdleTimeoutSecs == 0

\* TerminateSession calls an administrator makes.
MaxTerminateCalls == 1

\* Connections accepted, sweep periods elapsed and TerminateSession calls
\* made, taken together.
MaxEvents == 3

\* First port of every configured range.
PortBase == 1

UserA == <<97>>

UserB == <<98>>

\* A cookie username with no account in the OS user database.
UserC == <<99>>

\* nix::unistd::User::from_name succeeds for these.
SystemUsers == {UserA, UserB}

\* Process ids for which kill(pid, 0) succeeds, besides pid 0.
LivePids == {4}

\* Process ids for which kill(pid, 0) fails: the process is gone.
DeadPids == {5}

\* A BrokerConfig, as far as the session registry and the router read it.
Config(ports, max_sessions, policy) ==
    [port_range_start |-> PortBase, port_range_end |-> PortBase + ports - 1,
     max_sessions |-> max_sessions, session_policy |-> policy]

\* peer_addr.to_string() of the connection a route task handles.
PeerAddr(t) == <<"peer", t>>

NoAddr == <<>>

\* format!("cosmic-ext-rdp-session-{username}")
UnitName(u) == <<"cosmic-ext-rdp-session-", u>>

\* String::new()
NoUnit == <<>>

SessionEntry(u, port, pid, state, created_at, client_addr, unit_name) ==
    [username |-> u, port |-> port, pid |-> pid, state |-> state,
     created_at |-> created_at, client_addr |-> client_addr,
     unit_name |-> unit_name]

\* Option::None of registry.get / registry.remove
NoEntry == SessionEntry(<<>>, 0, 0, "None", 0, NoAddr, NoUnit)

\* The Connection Requests clients send to the broker.
ClientPackets ==
    {CookieRequest(<<>>, CookieKey, UserA, CRLF),
     CookieRequest(<<>>, CookieKey, UserB, CRLF),
     CookieRequest(<<>>, CookieKey, UserC, CRLF),
     CookieRequest(<<>>, CookieKey, <<97, 59>>, CRLF),
     Tpkt(2, X224Header \o CookieKey \o UserA \o CRLF)}

\* What reading each of them gives.
ClientRequests == {read_connection_request(p) : p \in ClientPackets}

\* State files found at startup: none; one left by an earlier run with an
\* idle session whose server still runs; one holding a session recorded as
\* stopping and a session whose process is gone.
NoFile == [entries |-> {}, running |-> {}]

IdleFile ==
    [entries |-> {SessionEntry(UserA, PortBase, 0, "Idle", 0, NoAddr, UnitName(UserA))},
     running |-> {UserA}]

StoppingFile ==
    [entries |-> {SessionEntry(UserA, PortBase, 0, "Stopping", 0, NoAddr, UnitName(UserA)),
                  SessionEntry(UserB, PortBase + 1, 5, "Active", 0, NoAddr, UnitName(UserB))},
     running |-> {}]

\* The deployments studied, each a configuration and the state file it
\* starts on: room for every user; a range of one port under the replacing
\* policy; a limit of one session after a restart that found a stopping
\* session; a restart that found an idle session.
Scenarios ==
    {[config |-> Config(MaxPorts, MaxSessionLimit, "OnePerUser"), file |-> NoFile],
     [config |-> Config(1, MaxSessionLimit, "ReplaceExisting"), file |-> NoFile],
     [config |-> Config(MaxPorts, 1, "OnePerUser"), file |-> StoppingFile],
     [config |-> Config(MaxPorts, MaxSessionLimit, "OnePerUser"), file |-> IdleFile]}

(***************************************************************************)
(* session.rs: the registry operations, each under one lock acquisition.   *)
(***************************************************************************)
EmptyMap == [u \in {} |-> NoEntry]

get(s, u) == IF u \in DOMAIN s THEN s[u] ELSE NoEntry

insert(s, entry) ==
    [u \in DOMAIN s \cup {entry.username} |->
        IF u = entry.username THEN entry ELSE s[u]]

remove(s, u) == [x \in DOMAIN s \ {u} |-> s[x]]

set_state(s, u, state) ==
    IF u \in DOMAIN s THEN [s EXCEPT ![u].state = state] ELSE s

set_client_addr(s, u, addr) ==
    IF u \in DOMAIN s THEN [s EXCEPT ![u].client_addr = addr] ELSE s

\* A set of held ports that leaves out the sessions no client is connected to.
used_ports_of_active(s) == {s[u].port : u \in {x \in DOMAIN s : s[x].state = "Active"}}

used_ports(s) == {s[u].port : u \in DOMAIN s}

\* An allocation that does not look at max_sessions.
allocate_port_no_limit(s, cfg) ==
    LET free == {p \in cfg.port_range_start..cfg.port_range_end :
                    p \notin used_ports(s)}
    IN IF free = {} THEN [ok |-> FALSE, port |-> 0, err |-> "no_ports"]
       ELSE [ok |-> TRUE, port |-> Min(free), err |-> ""]

\* Ok(port) is [ok |-> TRUE, port |-> port]; the two bail!s are ok = FALSE.
allocate_port(s, cfg) ==
    IF Cardinality(DOMAIN s) >= cfg.max_sessions
    THEN [ok |-> FALSE, port |-> 0, err |-> "limit"]
    ELSE LET free == {p \in cfg.port_range_start..cfg.port_range_end :
                         p \notin used_ports(s)}
         IN IF free = {} THEN [ok |-> FALSE, port |-> 0, err |-> "no_ports"]
            ELSE [ok |-> TRUE, port |-> Min(free), err |-> ""]

\* now.saturating_sub(created_at).try_into().unwrap_or(0)
idle_for(t, created_at) == IF t - created_at < 0 THEN 0 ELSE t - created_at

idle_sessions(s, timeout_secs, t) ==
    {u \in DOMAIN s :
        s[u].state = "Idle" /\ idle_for(t, s[u].created_at) > timeout_secs}

is_pid_alive(pid) == pid = 0 \/ pid \in LivePids

\* #[serde(rename_all = "lowercase")] on SessionStateSerde
StateToJson(state) ==
    CASE state = "Starting" -> "starting"
      [] state = "Active" -> "active"
      [] state = "Idle" -> "idle"
      [] state = "Stopping" -> "stopping"

\* Deserialize of SessionStateSerde; "" stands for an unknown variant.
StateFromJson(str) ==
    CASE str = "starting" -> "Starting"
      [] str = "active" -> "Active"
      [] str = "idle" -> "Idle"
      [] str = "stopping" -> "Stopping"
      [] OTHER -> ""

\* A SessionEntry as an object of the JSON state file: its seven members in
\* the order of the struct's fields.
to_json_no_addr(e) ==
    <<e.username, e.port, e.pid, StateToJson(e.state), e.created_at,
      NoAddr, e.unit_name>>

\* Serialize of SessionEntry.
to_json(e) ==
    <<e.username, e.port, e.pid, StateToJson(e.state), e.created_at,
      e.client_addr, e.unit_name>>

\* Deserialize of SessionEntry.
from_json(j) ==
    SessionEntry(j[1], j[2], j[3], StateFromJson(j[4]), j[5], j[6], j[7])

\* serde_json::from_str succeeds on the file's contents.
ParseOk(file) == \A j \in file : StateFromJson(j[4]) # ""

\* A file that does not parse leaves the registry as it is; otherwise the
\* file's entries whose pid is alive are inserted over what is there.
load_state(s, file) ==
    IF ~ParseOk(file) THEN s
    ELSE
    LET entries == {from_json(j) : j \in file}
        live == {e \in entries : is_pid_alive(e.pid)}
    IN [u \in DOMAIN s \cup {e.username : e \in live} |->
            IF \E e \in live : e.username = u
            THEN CHOOSE e \in live : e.username = u
            ELSE s[u]]

\* What save_state writes: the values of the map, serialized.
save_state(s) == {to_json(s[u]) : u \in DOMAIN s}

(***************************************************************************)
(* spawner.rs, as far as the broker observes it.                           *)
(***************************************************************************)
\* A TCP connect to 127.0.0.1:port succeeds.
Listening(b, port) == \E u \in DOMAIN b : b[u].port = port /\ b[u].listening

\* systemctl stop <unit_name>: the unit of that name, if loaded, is stopped.
stop_user_server(b, unit_name) ==
    [u \in {x \in DOMAIN b : UnitName(x) # unit_name} |-> b[u]]

\* systemd-run --unit <unit_name> refuses a unit name that is in use.
CanSpawn(b, u) == u \notin DOMAIN b

spawn_user_server(b, u, port) ==
    [x \in DOMAIN b \cup {u} |->
        IF x = u THEN [port |-> port, listening |-> FALSE] ELSE b[x]]

(***************************************************************************)
(* egfx.rs: the EGFX state shared by EgfxBridge and EgfxController.        *)
(* An Option is a set: {} for None, {x} for Some(x).                       *)
(***************************************************************************)
\* Distinct cursor updates the capture can deliver.
MaxCursors == 2

\* Frames skipped while waiting for EGFX that the display model follows.
MaxSkipped == 2

\* Desktop and frame sizes, as <<width, height>>.
Sizes == {<<1, 1>>, <<2, 1>>}

\* GraphicsPipelineServer::new: not ready, nothing in flight, no capability
\* set negotiated (avc420: the negotiated set includes AVC420), no surface
\* (surface: the size of the surface the pipeline holds, as an Option).
NewPipeline ==
    [is_ready |-> FALSE, should_backpressure |-> FALSE, avc420 |-> FALSE,
     surface |-> {}]

create_egfx(size) ==
    [server |-> NewPipeline,
     ready |-> FALSE,
     surface_id |-> {},
     dvc_channel_id |-> {},
     supports_avc420 |-> FALSE,
     width |-> size[1],
     height |-> size[2],
     event_tx |-> {},
     needs_keyframe |-> FALSE]

\* A reset that keeps the pipeline server and the keyframe flag.
reset_flags_only(inner) ==
    [inner EXCEPT !.ready = FALSE,
                  !.surface_id = {},
                  !.dvc_channel_id = {},
                  !.supports_avc420 = FALSE]

\* EgfxController::reset
reset(inner) ==
    [inner EXCEPT !.server = NewPipeline,
                  !.ready = FALSE,
                  !.surface_id = {},
                  !.dvc_channel_id = {},
                  !.supports_avc420 = FALSE,
                  !.needs_keyframe = FALSE]

\* A send_frame that does not look at should_backpressure.
send_frame_no_backpressure(inner, frame, accepted, delivered) ==
    IF inner.event_tx = {} THEN [ret |-> FALSE, events |-> <<>>]
    ELSE IF inner.surface_id = {} THEN [ret |-> FALSE, events |-> <<>>]
    ELSE IF ~accepted THEN [ret |-> FALSE, events |-> <<>>]
    ELSE IF inner.dvc_channel_id = {} THEN [ret |-> FALSE, events |-> <<>>]
    ELSE IF ~delivered THEN [ret |-> FALSE, events |-> <<>>]
    ELSE [ret |-> TRUE, events |-> <<frame>>]

\* EgfxController::send_frame.  accepted: send_avc420_frame returned a frame
\* id; delivered: event_tx.send succeeded.  events: the DvcOutput events
\* that reached the server's event channel.
send_frame(inner, frame, accepted, delivered) ==
    IF inner.event_tx = {} THEN [ret |-> FALSE, events |-> <<>>]
    ELSE IF inner.surface_id = {} THEN [ret |-> FALSE, events |-> <<>>]
    ELSE IF inner.server.should_backpressure THEN [ret |-> FALSE, events |-> <<>>]
    ELSE IF ~accepted THEN [ret |-> FALSE, events |-> <<>>]
    ELSE IF inner.dvc_channel_id = {} THEN [ret |-> FALSE, events |-> <<>>]
    ELSE IF ~delivered THEN [ret |-> FALSE, events |-> <<>>]
    ELSE [ret |-> TRUE, events |-> <<frame>>]

\* EgfxController::resize.  server.resize deletes the old surface and queues
\* ResetGraphics; created: create_surface returned a surface id; the queued
\* PDUs are drained and go out as one event when a channel id is recorded;
\* the result of event_tx.send is ignored.
resize(inner, size, created, delivered) ==
    LET sized == [inner EXCEPT !.width = size[1], !.height = size[2]]
    IN IF inner.event_tx = {} \/ ~inner.ready
       THEN [inner |-> sized, events |-> <<>>]
       ELSE [inner |-> [sized EXCEPT !.needs_keyframe = TRUE,
                                     !.server.surface = IF created THEN {size} ELSE {},
                                     !.surface_id = IF created THEN {1} ELSE @],
             events |-> IF inner.dvc_channel_id # {} /\ delivered
                        THEN <<"reset">> ELSE <<>>]

\* EgfxBridge::start
start(inner) == [inner EXCEPT !.dvc_channel_id = {1}]

\* EgfxBridge::close; server.close ends the pipeline's channel and what it
\* held.
close(inner) ==
    [inner EXCEPT !.server.is_ready = FALSE,
                  !.server.surface = {},
                  !.ready = FALSE,
                  !.surface_id = {},
                  !.dvc_channel_id = {},
                  !.supports_avc420 = FALSE]

\* A process whose surface has a size of its own, not the stored one.
process_fixed_size(inner, is_ready, avc420, created) ==
    LET srv == [inner.server EXCEPT
                   !.is_ready = is_ready,
                   !.avc420 = IF ~inner.server.is_ready /\ is_ready
                              THEN avc420 ELSE @]
        synced == [inner EXCEPT !.server = srv,
                                !.ready = is_ready,
                                !.supports_avc420 = is_ready]
    IN IF ~inner.ready /\ is_ready /\ inner.surface_id = {} /\ created
       THEN [synced EXCEPT !.surface_id = {1},
                           !.server.surface = {<<1, 1>>}]
       ELSE synced

\* EgfxBridge::process.  is_ready: server.is_ready() after server.process;
\* avc420: the capability set the negotiation ends with includes AVC420;
\* created: create_surface returned a surface id.
process(inner, is_ready, avc420, created) ==
    LET srv == [inner.server EXCEPT
                   !.is_ready = is_ready,
                   !.avc420 = IF ~inner.server.is_ready /\ is_ready
                              THEN avc420 ELSE @]
        synced == [inner EXCEPT !.server = srv,
                                !.ready = is_ready,
                                !.supports_avc420 = is_ready]
    IN IF ~inner.ready /\ is_ready /\ inner.surface_id = {} /\ created
       THEN [synced EXCEPT !.surface_id = {1},
                           !.server.surface = {<<inner.width, inner.height>>}]
       ELSE synced

(***************************************************************************)
(* server.rs: LiveDisplay and LiveDisplayUpdates.                          *)
(***************************************************************************)
\* Frames skipped while EGFX is set, before bitmaps are sent instead.
EgfxWaitLimit == 300

\* No connection: no LiveDisplayUpdates exists.
NoUpdates ==
    [live |-> FALSE, event_rx |-> {}, polling |-> FALSE, pending_cursor |-> {},
     encoder |-> {}, encoder_width |-> 0, encoder_height |-> 0,
     egfx_wait_frames |-> 0]

\* try_send_egfx_frame.  lib: what the encoder and the pipeline server do
\* on this call.  An encoder is [force, fresh]: a forced key unit is
\* pending; no frame has come out yet.  The first frame of an encoder and a
\* forced frame are IDR frames, any other frame is what the encoder chooses.
try_send_egfx_frame(present, inner, upd, size, lib) ==
    IF ~present THEN [ret |-> FALSE, inner |-> inner, upd |-> upd, events |-> <<>>]
    ELSE IF ~inner.ready \/ ~inner.supports_avc420
    THEN [ret |-> FALSE, inner |-> inner, upd |-> upd, events |-> <<>>]
    ELSE
      LET changed == upd.encoder # {}
                       /\ (size[1] # upd.encoder_width \/ size[2] # upd.encoder_height)
          rz == IF changed THEN resize(inner, size, lib.created, lib.delivered)
                ELSE [inner |-> inner, events |-> <<>>]
          creating == changed \/ upd.encoder = {}
      IN IF creating /\ ~lib.enc_new
         THEN [ret |-> FALSE, inner |-> rz.inner,
               upd |-> [upd EXCEPT !.encoder = {}], events |-> rz.events]
         ELSE
           LET inner2 == IF creating THEN [rz.inner EXCEPT !.needs_keyframe = FALSE]
                         ELSE rz.inner
               enc == IF creating
                      THEN [force |-> rz.inner.needs_keyframe, fresh |-> TRUE]
                      ELSE CHOOSE e \in upd.encoder : TRUE
               upd2 == IF creating
                       THEN [upd EXCEPT !.encoder_width = size[1],
                                        !.encoder_height = size[2]]
                       ELSE upd
           IN IF lib.encoded
              THEN LET frame == IF enc.force \/ enc.fresh THEN "idr" ELSE lib.frame
                       sf == send_frame(inner2, frame, lib.accepted, lib.delivered)
                   IN [ret |-> sf.ret, inner |-> inner2,
                       upd |-> [upd2 EXCEPT !.encoder =
                                   {[force |-> FALSE, fresh |-> FALSE]}],
                       events |-> rz.events \o sf.events]
              ELSE [ret |-> FALSE, inner |-> inner2,
                    upd |-> [upd2 EXCEPT !.encoder = {enc}], events |-> rz.events]

\* What is outside the display of the RDP server.
nonDisplayVars == <<connVars, brokerVars, daemonVars, ioVars, histVars>>

\* main.rs: LiveDisplay::new, create_egfx, set_egfx; no client yet.
DisplayInit ==
    /\ \E size \in Sizes, egfx \in BOOLEAN :
          /\ display = [width |-> size[1], height |-> size[2], egfx |-> egfx,
                        event_rx |-> {"rx"}]
          /\ shared = create_egfx(size)
    /\ updates = NoUpdates
    /\ sent = <<>>
    /\ returned = [kind |-> "none", cursor |-> 0]

\* The display variables while another part is studied.
DisplayOff ==
    /\ display = [width |-> 1, height |-> 1, egfx |-> FALSE, event_rx |-> {"rx"}]
    /\ shared = create_egfx(<<1, 1>>)
    /\ updates = NoUpdates
    /\ sent = <<>>
    /\ returned = [kind |-> "none", cursor |-> 0]

\* EgfxEventSetter::set_event_sender, before the server runs.
set_event_sender ==
    /\ display.egfx
    /\ shared.event_tx = {}
    /\ shared' = [shared EXCEPT !.event_tx = {"tx"}]
    /\ UNCHANGED <<display, updates, sent, returned, nonDisplayVars>>

\* An updates() that hands out the receiver and leaves it in the channels.
UpdatesKeepsReceiver ==
    /\ display.event_rx # {}
    /\ display.egfx => shared.event_tx # {}
    /\ shared' = IF display.egfx THEN reset(shared) ELSE shared
    /\ updates' = [NoUpdates EXCEPT !.live = TRUE, !.event_rx = display.event_rx]
    /\ UNCHANGED <<display, sent, returned, nonDisplayVars>>

\* LiveDisplay::updates: a client connected and the receiver is taken out
\* of the shared DisplayChannels (display.event_rx).
Updates ==
    /\ display.event_rx # {}
    /\ display.egfx => shared.event_tx # {}
    /\ shared' = IF display.egfx THEN reset(shared) ELSE shared
    /\ updates' = [NoUpdates EXCEPT !.live = TRUE, !.event_rx = display.event_rx]
    /\ display' = [display EXCEPT !.event_rx = {}]
    /\ UNCHANGED <<sent, returned, nonDisplayVars>>

\* LiveDisplay::updates while the receiver is out: "capture already in use".
UpdatesFails ==
    /\ display.event_rx = {}
    /\ returned' = [kind |-> "updates_err", cursor |-> 0]
    /\ UNCHANGED <<shared, display, updates, sent, nonDisplayVars>>

\* Drop for LiveDisplayUpdates: the client is gone, the receiver goes back.
drop ==
    /\ updates.live
    /\ display' = [display EXCEPT !.event_rx = updates.event_rx]
    /\ updates' = NoUpdates
    /\ UNCHANGED <<shared, sent, returned, nonDisplayVars>>

\* EgfxBridge::start: the client opened the graphics channel.
BridgeStart ==
    /\ updates.live
    /\ display.egfx
    /\ shared.dvc_channel_id = {}
    /\ shared' = start(shared)
    /\ UNCHANGED <<display, updates, sent, returned, nonDisplayVars>>

\* EgfxBridge::process: a message of a client whose capability set includes
\* AVC420; the pipeline server may become ready, and the first time it does
\* the surface is created.
BridgeProcess ==
    /\ updates.live
    /\ shared.dvc_channel_id # {}
    /\ \E is_ready \in BOOLEAN, avc420 \in {TRUE}, created \in BOOLEAN :
          /\ shared.server.is_ready => is_ready
          /\ shared' = process(shared, is_ready, avc420, created)
    /\ UNCHANGED <<display, updates, sent, returned, nonDisplayVars>>

\* EgfxBridge::close
BridgeClose ==
    /\ updates.live
    /\ shared.dvc_channel_id # {}
    /\ shared' = close(shared)
    /\ UNCHANGED <<display, updates, sent, returned, nonDisplayVars>>

\* The pipeline server's frames in flight reach or leave its limit
\* (frames sent, frame acknowledgements processed).
Backpressure ==
    /\ shared.ready
    /\ shared' = [shared EXCEPT !.server.should_backpressure = ~@]
    /\ UNCHANGED <<display, updates, sent, returned, nonDisplayVars>>

\* LiveDisplay::request_layout with a primary monitor of this size.
request_layout(size) ==
    /\ updates.live
    /\ ~(size[1] = display.width /\ size[2] = display.height)
    /\ display.egfx /\ shared.ready
    /\ \E created \in BOOLEAN, delivered \in BOOLEAN :
          LET rz == resize(shared, size, created, delivered)
          IN /\ shared' = rz.inner
             /\ sent' = IF rz.events # <<>> THEN rz.events ELSE sent
    /\ display' = [display EXCEPT !.width = size[1], !.height = size[2]]
    /\ UNCHANGED <<updates, returned, nonDisplayVars>>

\* next_update is called: a buffered cursor is returned at once, otherwise
\* the call waits on event_rx.recv().
NextUpdateCall ==
    /\ updates.live
    /\ ~updates.polling
    /\ IF updates.pending_cursor # {}
       THEN /\ returned' = [kind |-> "cursor",
                            cursor |-> CHOOSE c \in updates.pending_cursor : TRUE]
            /\ updates' = [updates EXCEPT !.pending_cursor = {}]
       ELSE /\ updates' = [updates EXCEPT !.polling = TRUE]
            /\ UNCHANGED returned
    /\ UNCHANGED <<shared, display, sent, nonDisplayVars>>

\* What the encoder and the pipeline server can do during one call of
\* try_send_egfx_frame; nothing of it is looked at unless EGFX is ready.
LibOutcomes(inner) ==
    IF inner.ready /\ inner.supports_avc420
    THEN [enc_new : BOOLEAN, encoded : BOOLEAN, frame : {"idr", "p"},
          created : BOOLEAN, accepted : BOOLEAN, delivered : {TRUE}]
    ELSE [enc_new : {TRUE}, encoded : {TRUE}, frame : {"idr"},
          created : {TRUE}, accepted : {TRUE}, delivered : {TRUE}]

\* One turn of the loop in next_update for a Frame or FrameAndCursor event
\* (cursor: the event's cursor, as an Option): the frame goes out through
\* EGFX, or is skipped, or is returned as a bitmap.  Skipped frames are
\* followed up to max_wait of them.
HandleFrame(size, cursor, max_wait) ==
    \E lib \in LibOutcomes(shared) :
       LET upd == IF cursor # {} THEN [updates EXCEPT !.pending_cursor = cursor]
                  ELSE updates
           r == try_send_egfx_frame(display.egfx, shared, upd, size, lib)
       IN /\ shared' = r.inner
          /\ sent' = IF r.events # <<>> THEN r.events ELSE sent
          /\ IF r.ret
             THEN /\ updates' = r.upd
                  /\ UNCHANGED returned
             ELSE IF display.egfx /\ r.upd.egfx_wait_frames < EgfxWaitLimit
             THEN /\ r.upd.egfx_wait_frames < max_wait
                  /\ updates' = [r.upd EXCEPT !.egfx_wait_frames = @ + 1]
                  /\ UNCHANGED returned
             ELSE /\ updates' = [r.upd EXCEPT !.polling = FALSE]
                  /\ returned' = [kind |-> "bitmap", cursor |-> 0]

\* One turn of the loop in next_update: a capture event is received and
\* handled; the call returns an update or goes on to the next event.
NextEvent ==
    /\ updates.live
    /\ updates.polling
    /\ \/ \E cursor \in 1..MaxCursors :
             /\ returned' = [kind |-> "cursor", cursor |-> cursor]
             /\ updates' = [updates EXCEPT !.polling = FALSE]
             /\ UNCHANGED <<shared, sent>>
       \/ \E size \in Sizes : HandleFrame(size, {}, MaxSkipped)
       \/ \E size \in Sizes, cursor \in 1..MaxCursors :
             HandleFrame(size, {cursor}, MaxSkipped)
    /\ UNCHANGED <<display, nonDisplayVars>>

\* The same turn of the loop for a capture that delivers frames of one size
\* only, with every skipped frame followed.
NextFrame ==
    /\ updates.live
    /\ updates.polling
    /\ HandleFrame(<<1, 1>>, {}, EgfxWaitLimit)
    /\ UNCHANGED <<display, nonDisplayVars>>

(***************************************************************************)
(* cosmic-rdp-server main.rs: the run loop; rdp-dbus server.rs: the        *)
(* Reload and Stop methods.                                                *)
(***************************************************************************)
\* IP addresses: four octets, or eight 16-bit segments.
Loopback4 == <<127, 0, 0, 1>>

Loopback6 == <<0, 0, 0, 0, 0, 0, 0, 1>>

Addresses ==
    {Loopback4, <<127, 8, 0, 9>>, <<0, 0, 0, 0>>, <<192, 168, 1, 5>>,
     Loopback6, <<0, 0, 0, 0, 0, 0, 0, 0>>, <<0, 0, 0, 0, 0, 65535, 32512, 1>>}

\* IpAddr::is_loopback: 127.0.0.0/8, or ::1.
is_localhost(ip) == IF Len(ip) = 4 THEN ip[1] = 127 ELSE ip = Loopback6

ServerConfig(enable, username, password, bind) ==
    [auth |-> [enable |-> enable, username |-> username, password |-> password],
     bind |-> bind]

\* The configurations load_and_merge_config can return.
Configs ==
    {ServerConfig(FALSE, "", "", ip) : ip \in Addresses}
    \cup {ServerConfig(TRUE, "u", "p", <<0, 0, 0, 0>>),
          ServerConfig(TRUE, "", "p", <<0, 0, 0, 0>>),
          ServerConfig(TRUE, "u", "", Loopback4)}

\* The uid of the daemon's process, and the uids of D-Bus callers.
ServiceUid == 1000

CallerUids == {0, ServiceUid, ServiceUid + 1}

\* Reload commands the daemon acts on; commands waiting in the channel.
MaxReloads == 2

MaxQueued == 2

\* What is outside the daemon's run loop and D-Bus interface.
nonDaemonVars == <<connVars, brokerVars, displayVars, ioVars, histVars>>

\* main(): the configuration is loaded, the D-Bus server runs, the loop
\* is about to start.
DaemonInit ==
    /\ \E c \in Configs :
          /\ cfgFile = c
          /\ daemon = [pc |-> "loop", cfg |-> c, listening |-> {}, reloads |-> 0]
    /\ cmdQueue = <<>>
    /\ dbusReply = [method |-> "", uid |-> {}, result |-> ""]

\* The daemon variables while another part is studied.
DaemonOff ==
    /\ cfgFile = ServerConfig(FALSE, "", "", Loopback4)
    /\ daemon = [pc |-> "off", cfg |-> ServerConfig(FALSE, "", "", Loopback4),
                 listening |-> {}, reloads |-> 0]
    /\ cmdQueue = <<>>
    /\ dbusReply = [method |-> "", uid |-> {}, result |-> ""]

\* The configuration file is edited.
EditConfig ==
    /\ daemon.pc \in {"loop", "running"}
    /\ \E c \in Configs : cfgFile' = c
    /\ UNCHANGED <<daemon, cmdQueue, dbusReply, nonDaemonVars>>

\* A run loop that starts the server without the security check.
StartServerUnchecked ==
    /\ daemon.pc = "loop"
    /\ \E tls_ok \in BOOLEAN :
          LET c == daemon.cfg
              auth_ok == c.auth.enable => c.auth.username # "" /\ c.auth.password # ""
          IN daemon' = IF tls_ok /\ auth_ok
                       THEN [daemon EXCEPT !.pc = "running", !.listening = {c.bind}]
                       ELSE [daemon EXCEPT !.pc = "failed"]
    /\ UNCHANGED <<cfgFile, cmdQueue, dbusReply, nonDaemonVars>>

\* One pass from the top of the loop: the security check, setup_tls,
\* setup_auth, then the server is built and run on cfg.bind.
StartServer ==
    /\ daemon.pc = "loop"
    /\ \E tls_ok \in BOOLEAN :
          LET c == daemon.cfg
              auth_ok == c.auth.enable => c.auth.username # "" /\ c.auth.password # ""
          IN daemon' = IF ~c.auth.enable /\ ~is_localhost(c.bind)
                       THEN [daemon EXCEPT !.pc = "failed"]
                       ELSE IF tls_ok /\ auth_ok
                       THEN [daemon EXCEPT !.pc = "running", !.listening = {c.bind}]
                       ELSE [daemon EXCEPT !.pc = "failed"]
    /\ UNCHANGED <<cfgFile, cmdQueue, dbusReply, nonDaemonVars>>

\* run_with_shutdown returns because server.run() ended or a signal came.
ServerEnds ==
    /\ daemon.pc = "running"
    /\ \E ok \in BOOLEAN :
          daemon' = [daemon EXCEPT !.pc = IF ok THEN "stopped" ELSE "failed",
                                   !.listening = {}]
    /\ UNCHANGED <<cfgFile, cmdQueue, dbusReply, nonDaemonVars>>

\* run_with_shutdown receives a command: Stop ends the process, Reload
\* loads the configuration again (which can fail) and loops.
Command ==
    /\ daemon.pc = "running"
    /\ cmdQueue # <<>>
    /\ cmdQueue' = Tail(cmdQueue)
    /\ IF Head(cmdQueue) = "Stop"
       THEN daemon' = [daemon EXCEPT !.pc = "stopped", !.listening = {}]
       ELSE /\ daemon.reloads < MaxReloads
            /\ \E load_ok \in BOOLEAN :
                  daemon' = IF load_ok
                            THEN [daemon EXCEPT !.pc = "loop", !.listening = {},
                                                !.cfg = cfgFile, !.reloads = @ + 1]
                            ELSE [daemon EXCEPT !.pc = "failed", !.listening = {}]
    /\ UNCHANGED <<cfgFile, dbusReply, nonDaemonVars>>

\* A verify_same_uid that lets every caller through.
verify_any_uid(caller) == "Ok"

\* verify_same_uid.  caller: whether the message has a sender, whether the
\* bus could tell the sender's uid, and that uid.
verify_same_uid(caller) ==
    IF ~caller.sender THEN "AccessDenied"
    ELSE IF ~caller.known THEN "Failed"
    ELSE IF caller.uid # ServiceUid THEN "AccessDenied"
    ELSE "Ok"

\* RdpServerInterface::reload and ::stop, called over D-Bus.
DbusCall ==
    /\ daemon.pc \in {"loop", "running"}
    /\ Len(cmdQueue) < MaxQueued
    /\ \E method \in {"Reload", "Stop"},
          caller \in [sender : BOOLEAN, known : BOOLEAN, uid : CallerUids] :
          LET v == verify_same_uid(caller)
          IN /\ cmdQueue' = IF v = "Ok" THEN Append(cmdQueue, method) ELSE cmdQueue
             /\ dbusReply' = [method |-> method,
                              uid |-> IF caller.sender /\ caller.known
                                      THEN {caller.uid} ELSE {},
                              result |-> IF v = "Ok" THEN "true" ELSE v]
    /\ UNCHANGED <<daemon, cfgFile, nonDaemonVars>>

(***************************************************************************)
(* egfx.rs: the ZGFX wrapper.  A byte buffer is kept run-length encoded:   *)
(* a sequence of <<byte, count>> with count > 0 and no two neighbouring     *)
(* runs of the same byte, so that buffers of 65534 bytes and more can be    *)
(* compared byte for byte.                                                  *)
(***************************************************************************)
ZGFX_MAX_SEGMENT_DATA == 65534

RECURSIVE BLen(_)
\* slice::len
BLen(b) == IF b = <<>> THEN 0 ELSE b[1][2] + BLen(Tail(b))

\* Vec::extend_from_slice
BCat(a, b) ==
    IF a = <<>> THEN b
    ELSE IF b = <<>> THEN a
    ELSE IF a[Len(a)][1] = b[1][1]
    THEN SubSeq(a, 1, Len(a) - 1) \o <<<<b[1][1], a[Len(a)][2] + b[1][2]>>>> \o Tail(b)
    ELSE a \o b

RECURSIVE BTake(_, _)
\* &b[..n], or all of b if it is shorter
BTake(b, n) ==
    IF n = 0 \/ b = <<>> THEN <<>>
    ELSE IF b[1][2] <= n THEN <<b[1]>> \o BTake(Tail(b), n - b[1][2])
    ELSE <<<<b[1][1], n>>>>

RECURSIVE BDrop(_, _)
\* &b[n..], or nothing if b is shorter
BDrop(b, n) ==
    IF n = 0 \/ b = <<>> THEN b
    ELSE IF b[1][2] <= n THEN BDrop(Tail(b), n - b[1][2])
    ELSE <<<<b[1][1], b[1][2] - n>>>> \o Tail(b)

RECURSIVE Bytes(_)
\* The buffer that holds these bytes, one push each.
Bytes(seq) ==
    IF seq = <<>> THEN <<>> ELSE BCat(<<<<seq[1], 1>>>>, Bytes(Tail(seq)))

\* `as u16`, `as u32` of a usize.
as_u16(n) == n % 65536

as_u32(n) == ((n \div 65536) % 65536) * 65536 + (n % 65536)

\* u16::to_le_bytes (width 2), u32::to_le_bytes (width 4)
to_le_bytes(n, width) == [i \in 1..width |-> (n \div 256^(i - 1)) % 256]

RECURSIVE chunks(_, _)
\* slice::chunks(size)
chunks(payload, size) ==
    IF payload = <<>> THEN <<>>
    ELSE <<BTake(payload, size)>> \o chunks(BDrop(payload, size), size)

\* A multipart builder that leaves the flags byte out of the segment size.
zgfx_build_multipart_data_size(payload) ==
    LET cs == chunks(payload, ZGFX_MAX_SEGMENT_DATA)
        RECURSIVE Segments(_)
        Segments(c) ==
            IF c = <<>> THEN <<>>
            ELSE BCat(BCat(Bytes(to_le_bytes(as_u32(BLen(c[1])), 4) \o <<4>>), c[1]),
                      Segments(Tail(c)))
    IN BCat(Bytes(<<225>> \o to_le_bytes(as_u16(Len(cs)), 2)
                          \o to_le_bytes(as_u32(BLen(payload)), 4)),
            Segments(cs))

zgfx_build_multipart(payload) ==
    LET cs == chunks(payload, ZGFX_MAX_SEGMENT_DATA)
        RECURSIVE Segments(_)
        Segments(c) ==
            IF c = <<>> THEN <<>>
            ELSE BCat(BCat(Bytes(to_le_bytes(as_u32(1 + BLen(c[1])), 4) \o <<4>>), c[1]),
                      Segments(Tail(c)))
    IN BCat(Bytes(<<225>> \o to_le_bytes(as_u16(Len(cs)), 2)
                          \o to_le_bytes(as_u32(BLen(payload)), 4)),
            Segments(cs))

RECURSIVE combined(_)
\* zgfx_wrap_messages: the encoded PDUs one after the other.  A message is
\* {b} when encode_vec gives the bytes b, {} when it fails (skipped).
combined(messages) ==
    IF messages = <<>> THEN <<>>
    ELSE IF messages[1] = {} THEN combined(Tail(messages))
    ELSE BCat(CHOOSE b \in messages[1] : TRUE, combined(Tail(messages)))

\* zgfx_wrap_messages: the DVC messages to send (none, or one ZgfxWrapped).
zgfx_wrap_messages(messages) ==
    IF messages = <<>> THEN <<>>
    ELSE LET c == combined(messages)
         IN <<IF BLen(c) <= ZGFX_MAX_SEGMENT_DATA
              THEN BCat(Bytes(<<224, 4>>), c)
              ELSE zgfx_build_multipart(c)>>

\* Messages handed to one call of zgfx_wrap_messages.
MaxMessages == 2

\* Encoded PDUs: a run of one byte, of lengths around the segment limit.
EncodedPdus ==
    {<<<<v, n>>>> : v \in {4, 225},
                   n \in {1, ZGFX_MAX_SEGMENT_DATA - 1, ZGFX_MAX_SEGMENT_DATA,
                          ZGFX_MAX_SEGMENT_DATA + 1, 130000}}

MessageLists ==
    UNION {[1..k -> {{}} \cup {{b} : b \in EncodedPdus}] : k \in 0..MaxMessages}

\* drain_output is about to wrap these messages.
ZgfxInit ==
    \E m \in MessageLists : zgfx = [pc |-> "new", messages |-> m, out |-> <<>>]

\* EgfxBridge / EgfxController: the messages are wrapped for sending.
ZgfxWrap ==
    /\ zgfx.pc = "new"
    /\ zgfx' = [zgfx EXCEPT !.pc = "wrapped", !.out = zgfx_wrap_messages(zgfx.messages)]
    /\ UNCHANGED <<input, auxVars, connVars, brokerVars, displayVars, daemonVars, histVars>>

(***************************************************************************)
(* rdp-input libei.rs: key injection and the shadow state of the lock keys. *)
(***************************************************************************)
KEY_CAPSLOCK == 66

KEY_NUMLOCK == 77

KEY_SCROLLLOCK == 78

LockState(caps, num, scroll) ==
    [caps_lock |-> caps, num_lock |-> num, scroll_lock |-> scroll]

LockStates == {LockState(c, n, l) : c \in BOOLEAN, n \in BOOLEAN, l \in BOOLEAN}

\* LockState::locks_to_toggle
locks_to_toggle(self, target) ==
    (IF self.caps_lock # target.caps_lock THEN <<KEY_CAPSLOCK>> ELSE <<>>)
    \o (IF self.num_lock # target.num_lock THEN <<KEY_NUMLOCK>> ELSE <<>>)
    \o (IF self.scroll_lock # target.scroll_lock THEN <<KEY_SCROLLLOCK>> ELSE <<>>)

\* LockState::toggle_on_press
toggle_on_press(self, evdev) ==
    IF evdev = KEY_CAPSLOCK THEN [self EXCEPT !.caps_lock = ~@]
    ELSE IF evdev = KEY_NUMLOCK THEN [self EXCEPT !.num_lock = ~@]
    ELSE IF evdev = KEY_SCROLLLOCK THEN [self EXCEPT !.scroll_lock = ~@]
    ELSE self

\* The scancodes a client sends here: none, A, Right Ctrl (extended),
\* Caps Lock, Num Lock, Scroll Lock / Pause (extended).
Scancodes == {0, 29, 30, 58, 69, 70}

\* keymap.rs, the rows for Scancodes; an Option as a set.
rdp_scancode_to_evdev(code, extended) ==
    IF extended
    THEN IF code = 29 THEN {105} ELSE IF code = 70 THEN {127} ELSE {}
    ELSE IF code = 29 THEN {37}
    ELSE IF code = 30 THEN {38}
    ELSE IF code = 58 THEN {KEY_CAPSLOCK}
    ELSE IF code = 69 THEN {KEY_NUMLOCK}
    ELSE IF code = 70 THEN {KEY_SCROLLLOCK}
    ELSE {}

\* A toggle that injects the key and leaves the shadow state alone.
toggle_lock_key_no_shadow(inp, evdev) ==
    IF ~inp.keyboard THEN inp
    ELSE [inp EXCEPT !.emulating = TRUE,
                     !.injected = @ \o <<<<evdev - 8, "Press">>, <<evdev - 8, "Released">>>>]

\* EiInput::toggle_lock_key
toggle_lock_key(inp, evdev) ==
    IF ~inp.keyboard THEN inp
    ELSE [inp EXCEPT !.emulating = TRUE,
                     !.injected = @ \o <<<<evdev - 8, "Press">>, <<evdev - 8, "Released">>>>,
                     !.lock_state = toggle_on_press(@, evdev)]

\* discover_devices returned an EiInput, with or without a keyboard.
InputInit ==
    \E keyboard \in BOOLEAN :
        input = [keyboard |-> keyboard, emulating |-> FALSE,
                 lock_state |-> LockState(FALSE, FALSE, FALSE),
                 op |-> <<>>, injected |-> <<>>]

\* EiInput::key_press.  op is the call, injected the key events it sent.
key_press ==
    \E code \in Scancodes, extended \in BOOLEAN :
        LET evdev == rdp_scancode_to_evdev(code, extended)
            called == [input EXCEPT !.op = <<"key_press", code, extended>>,
                                    !.injected = <<>>]
        IN /\ input' =
                 IF ~input.keyboard \/ evdev = {} THEN called
                 ELSE LET e == CHOOSE x \in evdev : TRUE
                      IN [called EXCEPT !.emulating = TRUE,
                                        !.injected = <<<<e - 8, "Press">>>>,
                                        !.lock_state = toggle_on_press(@, e)]
           /\ UNCHANGED <<zgfx, auxVars, connVars, brokerVars, displayVars, daemonVars, histVars>>

\* EiInput::key_release
key_release ==
    \E code \in Scancodes, extended \in BOOLEAN :
        LET evdev == rdp_scancode_to_evdev(code, extended)
            called == [input EXCEPT !.op = <<"key_release", code, extended>>,
                                    !.injected = <<>>]
        IN /\ input' =
                 IF ~input.keyboard \/ evdev = {} THEN called
                 ELSE LET e == CHOOSE x \in evdev : TRUE
                      IN [called EXCEPT !.emulating = TRUE,
                                        !.injected = <<<<e - 8, "Released">>>>]
           /\ UNCHANGED <<zgfx, auxVars, connVars, brokerVars, displayVars, daemonVars, histVars>>

\* EiInput::synchronize_locks
synchronize_locks ==
    \E target \in LockStates :
        LET called == [input EXCEPT !.op = <<"synchronize_locks", target>>,
                                    !.injected = <<>>]
            to_toggle == locks_to_toggle(input.lock_state, target)
            RECURSIVE Toggled(_, _)
            Toggled(inp, keys) ==
                IF keys = <<>> THEN inp
                ELSE Toggled(toggle_lock_key(inp, keys[1]), Tail(keys))
        IN /\ input' = Toggled(called, to_toggle)
           /\ UNCHANGED <<zgfx, auxVars, connVars, brokerVars, displayVars, daemonVars, histVars>>

(***************************************************************************)
(* The two mutexes of the per-user server, EgfxInner (egfx.rs) and         *)
(* DisplayChannels (server.rs), and the calls that lock them.  A call is   *)
(* the sequence of its lock, unlock and channel operations.                *)
(***************************************************************************)
\* LiveDisplay's caller, the task that polls LiveDisplayUpdates, the DVC
\* channel's processor, and main() with its EgfxEventSetter.
Threads == {"display", "updates", "bridge", "setter"}

Mutexes == {"egfx", "channels"}

\* The documented order: SessionRegistry, EgfxInner, DisplayChannels.
LockRank == [egfx |-> 2, channels |-> 3]

Acq(l) == [k |-> "acq", l |-> l]

Rel(l) == [k |-> "rel", l |-> l]

Do(k) == [k |-> k, l |-> "none"]

\* lock_shared(&self.shared) held from entry to return: is_ready,
\* supports_avc420, take_needs_keyframe, reset, set_event_sender and
\* EgfxBridge::start, process, close.
lock_shared == <<Acq("egfx"), Rel("egfx")>>

\* A send_frame that sends the event before it lets go of the lock.
send_frame_locks_held == <<Acq("egfx"), Do("send"), Rel("egfx")>>

\* EgfxController::send_frame: drop(inner), then event_tx.send.
send_frame_locks == <<Acq("egfx"), Rel("egfx"), Do("send")>>

\* EgfxController::resize: drop(inner), then event_tx.send.
resize_locks == <<Acq("egfx"), Rel("egfx"), Do("send")>>

\* LiveDisplay::updates with an EgfxController set: the channels guard lives
\* to the end of the function, across event_rx.take() and egfx.reset().
updates_locks ==
    <<Acq("channels"), Do("take"), Acq("egfx"), Rel("egfx"), Rel("channels"), Do("new")>>

\* LiveDisplay::updates when event_rx.take() is None: `?` returns.
updates_err_locks == <<Acq("channels"), Do("take"), Rel("channels")>>

\* Drop for LiveDisplayUpdates
drop_locks == <<Acq("channels"), Do("put"), Rel("channels")>>

\* The calls each thread makes.  request_layout: is_ready, then resize when
\* ready.  frame: try_send_egfx_frame for one captured frame: is_ready,
\* supports_avc420, then resize and take_needs_keyframe when the frame size
\* changed, then send_frame.
Script(op) ==
    CASE op = "updates" -> updates_locks
      [] op = "updates_err" -> updates_err_locks
      [] op = "request_layout" -> lock_shared \o resize_locks
      [] op = "request_layout_unready" -> lock_shared
      [] op = "frame" -> lock_shared \o lock_shared \o send_frame_locks
      [] op = "frame_resized" ->
            lock_shared \o lock_shared \o resize_locks \o lock_shared \o send_frame_locks
      [] op = "frame_unready" -> lock_shared
      [] op = "drop" -> drop_locks
      [] op \in {"start", "process", "close", "set_event_sender"} -> lock_shared

Calls(th) ==
    CASE th = "display" -> {"updates", "request_layout", "request_layout_unready"}
      [] th = "updates" -> {"frame", "frame_resized", "frame_unready", "drop"}
      [] th = "bridge" -> {"start", "process", "close"}
      [] th = "setter" -> {"set_event_sender"}

NoCall == [op |-> "idle", i |-> 0]

\* The step a thread is about to take, and where it is after that step.
StepOf(th) == Script(locks.at[th].op)[locks.at[th].i]

After(th) ==
    IF locks.at[th].i = Len(Script(locks.at[th].op)) THEN NoCall
    ELSE [locks.at[th] EXCEPT !.i = @ + 1]

\* The variables outside the lock model.
nonLockVars == <<zgfx, input, comp, dvc, connVars, brokerVars, displayVars, daemonVars, histVars>>

\* Both mutexes free, the capture receiver in DisplayChannels, no client.
LockInit ==
    locks = [holder |-> [l \in Mutexes |-> "none"],
             at |-> [th \in Threads |-> NoCall],
             rx |-> TRUE,
             live |-> FALSE]

LockOff == locks = [holder |-> [l \in {} |-> "none"], at |-> [th \in {} |-> NoCall],
                    rx |-> TRUE, live |-> FALSE]

\* A thread enters one of its calls; next_update and drop need a
\* LiveDisplayUpdates.
BeginCall(th, op) ==
    /\ locks.at[th] = NoCall
    /\ op \in Calls(th)
    /\ th = "updates" => locks.live
    /\ locks' = [locks EXCEPT !.at[th] = [op |-> op, i |-> 1]]
    /\ UNCHANGED nonLockVars

\* Mutex::lock returns: the mutex was free.  std's Mutex is not re-entrant.
Acquire(th) ==
    /\ locks.at[th] # NoCall
    /\ StepOf(th).k = "acq"
    /\ locks.holder[StepOf(th).l] = "none"
    /\ locks' = [locks EXCEPT !.holder[StepOf(th).l] = th, !.at[th] = After(th)]
    /\ UNCHANGED nonLockVars

\* The guard is dropped.
Release(th) ==
    /\ locks.at[th] # NoCall
    /\ StepOf(th).k = "rel"
    /\ locks' = [locks EXCEPT !.holder[StepOf(th).l] = "none", !.at[th] = After(th)]
    /\ UNCHANGED nonLockVars

\* What a call does between lock operations: event_rx.take(), the return
\* of the new LiveDisplayUpdates, the receiver put back by drop, and
\* event_tx.send.
Effect(th) ==
    /\ locks.at[th] # NoCall
    /\ LET k == StepOf(th).k
       IN /\ k \in {"take", "new", "put", "send"}
          /\ locks' =
               CASE k = "take" /\ locks.rx ->
                       [locks EXCEPT !.rx = FALSE, !.at[th] = After(th)]
                 [] k = "take" /\ ~locks.rx ->
                       [locks EXCEPT !.at[th] = [op |-> "updates_err", i |-> 3]]
                 [] k = "new" ->
                       [locks EXCEPT !.live = TRUE, !.at[th] = After(th)]
                 [] k = "put" ->
                       [locks EXCEPT !.rx = TRUE, !.live = FALSE, !.at[th] = After(th)]
                 [] k = "send" ->
                       [locks EXCEPT !.at[th] = After(th)]
    /\ UNCHANGED nonLockVars

(***************************************************************************)
(* rdp-capture compositor.rs: FrameCompositor.  A channel is                *)
(* [open, queue]: open while its other end exists.                         *)
(***************************************************************************)
\* Capacity of each per-monitor channel and of the output channel.
InputCapacity == 1

OutputCapacity == 2

\* Capture events that the monitors deliver in all.
MaxCaptured == 3

U16Max == 65535

MonitorInfo(w, h, x, y) == [width |-> w, height |-> h, x |-> x, y |-> y]

\* Two monitors side by side, and two stacked.
MonitorLayouts ==
    {<<MonitorInfo(1, 1, 0, 0), MonitorInfo(2, 1, 1, 0)>>,
     <<MonitorInfo(2, 1, 0, 0), MonitorInfo(1, 1, 0, 1)>>}

bounding_box(monitors) ==
    IF monitors = <<>> THEN <<0, 0>>
    ELSE LET max_x == Max({0} \cup {monitors[i].x + monitors[i].width :
                                        i \in DOMAIN monitors})
             max_y == Max({0} \cup {monitors[i].y + monitors[i].height :
                                        i \in DOMAIN monitors})
         IN <<Min({Max({max_x, 0}), U16Max}), Min({Max({max_y, 0}), U16Max})>>

\* FrameCompositor::new, and the locals of run before its loop: the
\* receivers rx with the monitors' offsets, the output sender, no frame yet.
\* infos and captured are kept beside them: the monitors given, and the
\* number of capture events delivered so far.
new_compositor(infos) ==
    [pc |-> "poll",
     infos |-> infos,
     monitors |-> [i \in DOMAIN infos |->
                     [x_offset |-> infos[i].x, y_offset |-> infos[i].y]],
     rx |-> [i \in DOMAIN infos |-> [open |-> TRUE, queue |-> <<>>]],
     canvas_width |-> bounding_box(infos)[1],
     canvas_height |-> bounding_box(infos)[2],
     output_tx |-> [open |-> TRUE, queue |-> <<>>],
     sequence |-> 0,
     latest_frames |-> [i \in DOMAIN infos |-> {}],
     captured |-> 0]

\* The events the capture of a monitor can deliver.
CaptureEvents(info) ==
    {[kind |-> "frame", width |-> info.width, height |-> info.height],
     [kind |-> "cursor", x |-> 0, y |-> 0],
     [kind |-> "frame_cursor", width |-> info.width, height |-> info.height,
      x |-> 0, y |-> 0]}

adjust_cursor(cursor, x_offset, y_offset) ==
    [kind |-> "cursor", x |-> cursor.x + x_offset, y |-> cursor.y + y_offset]

\* Sender::try_send: the event is queued unless the channel is full or closed.
try_send(ch, event) ==
    IF ch.open /\ Len(ch.queue) < OutputCapacity
    THEN [ch EXCEPT !.queue = Append(@, event)]
    ELSE ch

\* FrameCompositor::compose: nothing without a frame in some slot, else a
\* canvas-sized frame with the next sequence number.
compose(c, frames) ==
    IF \A i \in DOMAIN frames : frames[i] = {}
    THEN [c |-> c, frame |-> {}]
    ELSE [c |-> [c EXCEPT !.sequence = @ + 1],
          frame |-> {[kind |-> "frame", width |-> c.canvas_width,
                      height |-> c.canvas_height, sequence |-> c.sequence + 1]}]

\* The body of the for loop in run for monitor i: try_recv and its match.
\* st is [c, any_new].  A closed channel still hands out what it holds.
PollMonitor(st, i) ==
    LET q == st.c.rx[i].queue
    IN IF q = <<>> THEN st
       ELSE LET event == Head(q)
                c1 == [st.c EXCEPT !.rx[i].queue = Tail(q)]
                m == st.c.monitors[i]
                stored == [c1 EXCEPT !.latest_frames[i] =
                              {[width |-> event.width, height |-> event.height]}]
            IN CASE event.kind = "frame" ->
                      [c |-> stored, any_new |-> TRUE]
                 [] event.kind = "frame_cursor" ->
                      [c |-> [stored EXCEPT !.output_tx =
                                 try_send(@, adjust_cursor(event, m.x_offset, m.y_offset))],
                       any_new |-> TRUE]
                 [] event.kind = "cursor" ->
                      [c |-> [c1 EXCEPT !.output_tx =
                                 try_send(@, adjust_cursor(event, m.x_offset, m.y_offset))],
                       any_new |-> st.any_new]

RECURSIVE PollFrom(_, _)
PollFrom(st, i) ==
    IF i > Len(st.c.monitors) THEN st ELSE PollFrom(PollMonitor(st, i), i + 1)

\* One turn of the loop in run, up to the sleep.
poll_once(c) ==
    LET st == PollFrom([c |-> c, any_new |-> FALSE], 1)
        cm == compose(st.c, st.c.latest_frames)
    IN IF ~st.any_new THEN st.c
       ELSE IF cm.frame = {} THEN cm.c
       ELSE [cm.c EXCEPT !.output_tx = try_send(@, CHOOSE f \in cm.frame : TRUE)]

\* What is outside the compositor.
nonCompVars ==
    <<zgfx, input, locks, dvc, connVars, brokerVars, displayVars, daemonVars,
      histVars>>

CompInit == \E infos \in MonitorLayouts : comp = new_compositor(infos)

\* The capture of monitor i delivers an event.
Capture(i) ==
    /\ comp.rx[i].open
    /\ Len(comp.rx[i].queue) < InputCapacity
    /\ comp.captured < MaxCaptured
    /\ \E event \in CaptureEvents(comp.infos[i]) :
          comp' = [comp EXCEPT !.rx[i].queue = Append(@, event),
                               !.captured = @ + 1]
    /\ UNCHANGED nonCompVars

\* The capture of monitor i ends: its sender is dropped.
CaptureEnds(i) ==
    /\ comp.rx[i].open
    /\ comp' = [comp EXCEPT !.rx[i].open = FALSE]
    /\ UNCHANGED nonCompVars

\* The consumer of the composed stream receives an event.
OutputRecv ==
    /\ comp.output_tx.open
    /\ comp.output_tx.queue # <<>>
    /\ comp' = [comp EXCEPT !.output_tx.queue = Tail(@)]
    /\ UNCHANGED nonCompVars

\* The consumer drops the output receiver.
OutputDropped ==
    /\ comp.output_tx.open
    /\ comp' = [comp EXCEPT !.output_tx = [open |-> FALSE, queue |-> <<>>]]
    /\ UNCHANGED nonCompVars

\* run: one turn of the loop, then the sleep.
CompTick ==
    /\ comp.pc = "poll"
    /\ comp' = [poll_once(comp) EXCEPT !.pc = "sleep"]
    /\ UNCHANGED nonCompVars

\* run: after the sleep the loop ends if the output is closed.
CompWake ==
    /\ comp.pc = "sleep"
    /\ comp' = [comp EXCEPT !.pc = IF comp.output_tx.open THEN "poll" ELSE "done"]
    /\ UNCHANGED nonCompVars

\* FrameCompositor is not running.
CompOff == comp = [pc |-> "off"]

\* No connection: no bridge was built, nothing was started or acquired.
NoConnection == [conn |-> FALSE, open |-> FALSE, acquired |-> FALSE]

DvcOff == dvc = NoConnection

AuxOff == LockOff /\ CompOff /\ DvcOff

(***************************************************************************)
(* egfx.rs: the calls on EgfxInner in the orders the callers allow.  The   *)
(* bridge is called by the RDP library's channel layer, reset by           *)
(* LiveDisplay::updates when the library asks for the display updates of   *)
(* the connection; nothing in EgfxInner orders the two.                    *)
(***************************************************************************)
\* What is outside EgfxInner, its output events and the channel.
nonEgfxVars ==
    <<display, updates, returned, zgfx, input, locks, comp, connVars,
      brokerVars, daemonVars, histVars>>

EgfxInit ==
    /\ \E size \in Sizes : shared = create_egfx(size)
    /\ display = [width |-> 1, height |-> 1, egfx |-> FALSE, event_rx |-> {"rx"}]
    /\ updates = NoUpdates
    /\ sent = <<>>
    /\ returned = [kind |-> "none", cursor |-> 0]
    /\ dvc = NoConnection

\* EgfxEventSetter::set_event_sender
EgfxSetSender ==
    /\ shared.event_tx = {}
    /\ shared' = [shared EXCEPT !.event_tx = {"tx"}]
    /\ UNCHANGED <<sent, dvc, nonEgfxVars>>

\* EgfxBridgeFactory::build: a client connects and gets a fresh bridge.
EgfxConnect ==
    /\ ~dvc.conn
    /\ dvc' = [NoConnection EXCEPT !.conn = TRUE]
    /\ UNCHANGED <<shared, sent, nonEgfxVars>>

\* The client is gone; close is not always called for its channel.
EgfxDisconnect ==
    /\ dvc.conn
    /\ dvc' = NoConnection
    /\ UNCHANGED <<shared, sent, nonEgfxVars>>

\* EgfxBridge::start
EgfxStart ==
    /\ dvc.conn /\ ~dvc.open
    /\ shared' = start(shared)
    /\ dvc' = [dvc EXCEPT !.open = TRUE]
    /\ UNCHANGED <<sent, nonEgfxVars>>

\* EgfxBridge::process
EgfxProcess ==
    /\ dvc.open
    /\ \E is_ready \in BOOLEAN, avc420 \in BOOLEAN, created \in BOOLEAN :
          /\ shared.server.is_ready => is_ready
          /\ shared' = process(shared, is_ready, avc420, created)
    /\ UNCHANGED <<sent, dvc, nonEgfxVars>>

\* EgfxBridge::close
EgfxClose ==
    /\ dvc.open
    /\ shared' = close(shared)
    /\ dvc' = [dvc EXCEPT !.open = FALSE]
    /\ UNCHANGED <<sent, nonEgfxVars>>

\* EgfxController::reset, from LiveDisplay::updates of this connection.
EgfxReset ==
    /\ dvc.conn /\ ~dvc.acquired
    /\ shared' = reset(shared)
    /\ dvc' = [dvc EXCEPT !.acquired = TRUE]
    /\ UNCHANGED <<sent, nonEgfxVars>>

\* EgfxController::resize; the server holds the receiver of its event
\* channel for as long as it runs.
EgfxResize(size) ==
    /\ dvc.conn
    /\ \E created \in BOOLEAN, delivered \in {TRUE} :
          LET rz == resize(shared, size, created, delivered)
          IN /\ shared' = rz.inner
             /\ sent' = rz.events
    /\ UNCHANGED <<dvc, nonEgfxVars>>

\* EgfxController::send_frame
EgfxSendFrame ==
    /\ dvc.acquired
    /\ \E frame \in {"idr", "p"}, accepted \in BOOLEAN, delivered \in {TRUE} :
          sent' = send_frame(shared, frame, accepted, delivered).events
    /\ UNCHANGED <<shared, dvc, nonEgfxVars>>

\* The wrapper and the injector while another part is studied.
IoOff ==
    /\ zgfx = [pc |-> "off", messages |-> <<>>, out |-> <<>>]
    /\ input = [keyboard |-> FALSE, emulating |-> FALSE,
                lock_state |-> LockState(FALSE, FALSE, FALSE),
                op |-> <<>>, injected |-> <<>>]
    /\ AuxOff

(***************************************************************************)
(* Initial state: the registry as SessionRegistry::new leaves it.          *)
(***************************************************************************)
BrokerInit ==
    /\ \E sc \in Scenarios :
          /\ config = sc.config
          /\ stateFile = {to_json(e) : e \in sc.file.entries}
          /\ backends =
                [u \in sc.file.running |->
                    [port |-> (CHOOSE e \in sc.file.entries : e.username = u).port,
                     listening |-> TRUE]]
    /\ phase = "load"
    /\ sessions = EmptyMap
    /\ now = 0
    /\ pc = [t \in Tasks |-> "idle"]
    /\ tuser = [t \in Tasks |-> <<>>]
    /\ existing = [t \in Tasks |-> NoEntry]
    /\ tport = [t \in Tasks |-> 0]
    /\ result = [t \in Tasks |-> ""]
    /\ log = [t \in Tasks |-> <<>>]
    /\ sweepPc = "tick"
    /\ sweepList = {}
    /\ sweepUnit = NoUnit
    /\ termPc = "idle"
    /\ termCalls = 0
    /\ termUnit = NoUnit
    /\ idleSince = EmptyMap

\* The connection variables while the broker as a whole is studied.
ConnOff ==
    /\ clientOut = <<>>
    /\ cookieValue = NoCookie
    /\ clientPos = 0
    /\ cr = NoCR
    /\ serverIn = <<>>
    /\ cpc = "off"

\* The broker variables while one connection's bytes are studied.
BrokerOff ==
    /\ config = Config(MaxPorts, MaxSessionLimit, "OnePerUser")
    /\ phase = "off"
    /\ sessions = EmptyMap
    /\ stateFile = {}
    /\ backends = [u \in {} |-> 0]
    /\ now = 0
    /\ pc = [t \in Tasks |-> "idle"]
    /\ tuser = [t \in Tasks |-> <<>>]
    /\ existing = [t \in Tasks |-> NoEntry]
    /\ tport = [t \in Tasks |-> 0]
    /\ result = [t \in Tasks |-> ""]
    /\ log = [t \in Tasks |-> <<>>]
    /\ sweepPc = "tick"
    /\ sweepList = {}
    /\ sweepUnit = NoUnit
    /\ termPc = "idle"
    /\ termCalls = 0
    /\ termUnit = NoUnit
    /\ idleSince = EmptyMap

\* The RDP server's display: capture events, the graphics channel and
\* layout requests of one client connection.
DisplaySpecInit == DisplayInit /\ DaemonOff /\ IoOff /\ BrokerOff /\ ConnOff

DisplaySpec ==
    /\ DisplaySpecInit
    /\ [][\/ set_event_sender
          \/ Updates
          \/ BridgeStart
          \/ BridgeProcess
          \/ BridgeClose
          \/ Backpressure
          \/ \E size \in Sizes : request_layout(size)
          \/ NextUpdateCall
          \/ NextEvent]_vars

\* The display with EGFX set, fed frames of one size until the bitmap
\* fallback is reached.
FallbackInit == DisplaySpecInit /\ display.egfx /\ display.width = 1

FallbackSpec ==
    /\ FallbackInit
    /\ [][\/ set_event_sender
          \/ Updates
          \/ BridgeStart
          \/ BridgeProcess
          \/ Backpressure
          \/ NextUpdateCall
          \/ NextFrame]_vars

\* The daemon's run loop with its configuration file and D-Bus callers.
DaemonSpecInit == DaemonInit /\ DisplayOff /\ IoOff /\ BrokerOff /\ ConnOff

DaemonSpec ==
    /\ DaemonSpecInit
    /\ [][\/ EditConfig
          \/ StartServer
          \/ ServerEnds
          \/ Command
          \/ DbusCall]_vars

\* The display over connections that come and go.
ReuseSpec ==
    /\ DisplaySpecInit
    /\ [][\/ set_event_sender
          \/ Updates
          \/ UpdatesFails
          \/ drop
          \/ BridgeStart
          \/ BridgeProcess
          \/ BridgeClose
          \/ Backpressure
          \/ \E size \in Sizes : request_layout(size)
          \/ NextUpdateCall]_vars

\* ZGFX wrapping of outgoing EGFX messages.
ZgfxSpecInit ==
    /\ ZgfxInit
    /\ input = [keyboard |-> FALSE, emulating |-> FALSE,
                lock_state |-> LockState(FALSE, FALSE, FALSE),
                op |-> <<>>, injected |-> <<>>]
    /\ AuxOff
    /\ DisplayOff /\ DaemonOff /\ BrokerOff /\ ConnOff

ZgfxSpec == ZgfxSpecInit /\ [][ZgfxWrap]_vars

\* The input injector under key and synchronize events of a client.
InputSpecInit ==
    /\ InputInit
    /\ zgfx = [pc |-> "off", messages |-> <<>>, out |-> <<>>]
    /\ AuxOff
    /\ DisplayOff /\ DaemonOff /\ BrokerOff /\ ConnOff

InputSpec == InputSpecInit /\ [][key_press \/ key_release \/ synchronize_locks]_vars

\* The threads of the per-user server and the mutexes they share.
LockSpecInit ==
    /\ LockInit
    /\ CompOff /\ DvcOff
    /\ zgfx = [pc |-> "off", messages |-> <<>>, out |-> <<>>]
    /\ input = [keyboard |-> FALSE, emulating |-> FALSE,
                lock_state |-> LockState(FALSE, FALSE, FALSE),
                op |-> <<>>, injected |-> <<>>]
    /\ DisplayOff /\ DaemonOff /\ BrokerOff /\ ConnOff

LockSpec ==
    /\ LockSpecInit
    /\ [][\E th \in Threads :
             \/ \E op \in Calls(th) : BeginCall(th, op)
             \/ Acquire(th)
             \/ Release(th)
             \/ Effect(th)]_vars

\* The compositor task with its monitors and its consumer; the task is
\* scheduled and its sleep ends.
CompSpecInit ==
    /\ CompInit
    /\ LockOff /\ DvcOff
    /\ zgfx = [pc |-> "off", messages |-> <<>>, out |-> <<>>]
    /\ input = [keyboard |-> FALSE, emulating |-> FALSE,
                lock_state |-> LockState(FALSE, FALSE, FALSE),
                op |-> <<>>, injected |-> <<>>]
    /\ DisplayOff /\ DaemonOff /\ BrokerOff /\ ConnOff

CompSpec ==
    /\ CompSpecInit
    /\ [][\/ \E i \in 1..2 : Capture(i) \/ CaptureEnds(i)
          \/ OutputRecv \/ OutputDropped
          \/ CompTick \/ CompWake]_vars
    /\ WF_vars(CompTick) /\ WF_vars(CompWake)

\* EgfxInner under the calls of the bridge and of the controller.
EgfxSpecInit ==
    /\ EgfxInit
    /\ LockOff /\ CompOff
    /\ zgfx = [pc |-> "off", messages |-> <<>>, out |-> <<>>]
    /\ input = [keyboard |-> FALSE, emulating |-> FALSE,
                lock_state |-> LockState(FALSE, FALSE, FALSE),
                op |-> <<>>, injected |-> <<>>]
    /\ DaemonOff /\ BrokerOff /\ ConnOff

EgfxSpec ==
    /\ EgfxSpecInit
    /\ [][\/ EgfxSetSender \/ EgfxConnect \/ EgfxDisconnect
          \/ EgfxStart \/ EgfxProcess \/ EgfxClose \/ EgfxReset
          \/ \E size \in Sizes : EgfxResize(size)
          \/ EgfxSendFrame]_vars

\* The environment's events so far: connections, sweep ticks, D-Bus calls.
Events == Cardinality({t \in Tasks : pc[t] # "idle"}) + now + termCalls

(***************************************************************************)
(* main.rs: startup.                                                       *)
(***************************************************************************)
\* registry.load_state() before the listener, the sweep and the IPC start.
LoadState ==
    /\ phase = "load"
    /\ sessions' = load_state(sessions, stateFile)
    /\ phase' = "run"
    /\ UNCHANGED <<config, stateFile, backends, now, taskVars, sweepVars, termVars, connVars, serverVars, histVars>>

\* A spawned per-user server binds its port and starts to listen.
BackendListen(u) ==
    /\ phase = "run"
    /\ u \in DOMAIN backends
    /\ ~backends[u].listening
    /\ ~Listening(backends, backends[u].port)
    /\ backends' = [backends EXCEPT ![u].listening = TRUE]
    /\ UNCHANGED <<config, phase, sessions, stateFile, now, taskVars, sweepVars, termVars, connVars, serverVars, histVars>>


(***************************************************************************)
(* broker.rs: handle_connection, one action per step between two awaits.   *)
(***************************************************************************)
\* What no route task changes.
envVars == <<config, phase, now, sweepVars, termVars, connVars, serverVars, histVars>>

Goto(t, next) == pc' = [pc EXCEPT ![t] = next]

Logged(t, op) == log' = [log EXCEPT ![t] = Append(@, op)]

\* handle_connection returns res; nothing else runs for this connection.
Return(t, res) ==
    /\ pc' = [pc EXCEPT ![t] = "done"]
    /\ result' = [result EXCEPT ![t] = res]

\* run(): accept, spawn the task; step 1: read the Connection Request and
\* take the username from its cookie.
Accept(t) ==
    /\ phase = "run"
    /\ pc[t] = "idle"
    /\ \A other \in Tasks : other < t => pc[other] # "idle"
    /\ Events < MaxEvents
    /\ \E r \in ClientRequests :
             IF r.ok /\ r.username.kind = "some"
             THEN /\ tuser' = [tuser EXCEPT ![t] = r.username.name]
                  /\ Goto(t, "lookup")
                  /\ UNCHANGED result
             ELSE /\ Return(t, IF ~r.ok THEN "read_err"
                               ELSE IF r.username.kind = "panic" THEN "panic"
                               ELSE "no_cookie")
                  /\ UNCHANGED tuser
    /\ UNCHANGED <<existing, tport, log, regVars, envVars>>

\* A lookup that treats every existing Active or Idle session as replaceable,
\* whatever the configured policy.
LookupAlwaysReplace(t) ==
    /\ pc[t] = "lookup"
    /\ LET e == get(sessions, tuser[t])
       IN /\ existing' = [existing EXCEPT ![t] =
                        IF e.state \in {"Active", "Idle"} THEN e ELSE NoEntry]
          /\ Goto(t, CASE e.state = "None" -> "alloc"
                       [] e.state \in {"Active", "Idle"} -> "rp_stop"
                       [] e.state = "Starting" -> "st_wait"
                       [] e.state = "Stopping" -> "remove")
          /\ tport' = [tport EXCEPT ![t] =
                        IF e.state = "Starting" THEN e.port ELSE 0]
    /\ UNCHANGED <<tuser, result, log, regVars, envVars>>

\* Step 2: registry.get(&username) and the match on existing.state.
Lookup(t) ==
    /\ pc[t] = "lookup"
    /\ LET e == get(sessions, tuser[t])
       IN /\ existing' = [existing EXCEPT ![t] =
                        IF e.state \in {"Active", "Idle"}
                           /\ config.session_policy = "ReplaceExisting"
                        THEN e ELSE NoEntry]
          /\ Goto(t, CASE e.state = "None" -> "alloc"
                       [] e.state \in {"Active", "Idle"}
                            /\ config.session_policy = "OnePerUser" -> "re_state"
                       [] e.state \in {"Active", "Idle"}
                            /\ config.session_policy = "ReplaceExisting" -> "rp_stop"
                       [] e.state = "Starting" -> "st_wait"
                       [] e.state = "Stopping" -> "remove")
          /\ tport' = [tport EXCEPT ![t] =
                        IF e.state = "Starting"
                           \/ (e.state \in {"Active", "Idle"}
                               /\ config.session_policy = "OnePerUser")
                        THEN e.port ELSE 0]
    /\ UNCHANGED <<tuser, result, log, regVars, envVars>>

\* Starting: wait_for_server_ready(existing.port, 30 s)?
StartingWait(t) ==
    /\ pc[t] = "st_wait"
    /\ \/ /\ Listening(backends, tport[t])
          /\ Goto(t, "re_state")
          /\ Logged(t, "ready")
          /\ UNCHANGED result
       \/ /\ ~Listening(backends, tport[t])
          /\ Return(t, "ready_timeout")
          /\ UNCHANGED log
    /\ UNCHANGED <<tuser, existing, tport, regVars, envVars>>

\* OnePerUser and Starting: registry.set_state(&username, Active)
ReSetState(t) ==
    /\ pc[t] = "re_state"
    /\ sessions' = set_state(sessions, tuser[t], "Active")
    /\ Goto(t, "re_addr")
    /\ Logged(t, "active")
    /\ UNCHANGED <<tuser, existing, tport, result, stateFile, backends, envVars>>

\* OnePerUser and Starting: registry.set_client_addr(&username, peer_addr)
ReSetAddr(t) ==
    /\ pc[t] = "re_addr"
    /\ sessions' = set_client_addr(sessions, tuser[t], PeerAddr(t))
    /\ Goto(t, "re_save")
    /\ UNCHANGED <<tuser, existing, tport, result, log, stateFile, backends, envVars>>

\* OnePerUser and Starting: registry.save_state()
ReSave(t) ==
    /\ pc[t] = "re_save"
    /\ stateFile' = save_state(sessions)
    /\ Goto(t, "re_proxy")
    /\ UNCHANGED <<tuser, existing, tport, result, log, sessions, backends, envVars>>

\* A replacement that goes on to remove the entry without stopping the
\* backend of the session it replaces.
ReplaceStopSkipped(t) ==
    /\ pc[t] = "rp_stop"
    /\ existing' = [existing EXCEPT ![t] = NoEntry]
    /\ Goto(t, "remove")
    /\ Logged(t, "stop")
    /\ UNCHANGED <<tuser, tport, result, sessions, stateFile, backends, envVars>>

\* ReplaceExisting: spawner::stop_user_server(&existing.unit_name)
ReplaceStop(t) ==
    /\ pc[t] = "rp_stop"
    /\ backends' = stop_user_server(backends, existing[t].unit_name)
    /\ existing' = [existing EXCEPT ![t] = NoEntry]
    /\ Goto(t, "remove")
    /\ Logged(t, "stop")
    /\ UNCHANGED <<tuser, tport, result, sessions, stateFile, envVars>>

\* ReplaceExisting, and Stopping after its 2 s sleep: registry.remove
Remove(t) ==
    /\ pc[t] = "remove"
    /\ sessions' = remove(sessions, tuser[t])
    /\ Goto(t, "alloc")
    /\ Logged(t, "remove")
    /\ UNCHANGED <<tuser, existing, tport, result, stateFile, backends, envVars>>

\* Step 3: verify_user_account(&username) fails: no such account.
VerifyFail(t) ==
    /\ pc[t] = "alloc"
    /\ tuser[t] \notin SystemUsers
    /\ Return(t, "auth_err")
    /\ UNCHANGED <<tuser, existing, tport, log, regVars, envVars>>

\* Step 3 succeeded; step 4: registry.allocate_port()?
Alloc(t) ==
    /\ pc[t] = "alloc"
    /\ tuser[t] \in SystemUsers
    /\ LET r == allocate_port(sessions, config)
       IN IF r.ok
          THEN /\ tport' = [tport EXCEPT ![t] = r.port]
               /\ Goto(t, "env")
               /\ Logged(t, "alloc")
               /\ UNCHANGED result
          ELSE /\ Return(t, "alloc_err")
               /\ UNCHANGED <<tport, log>>
    /\ UNCHANGED <<tuser, existing, regVars, envVars>>

\* spawner::discover_user_env fails: no graphical session was found.
DiscoverFail(t) ==
    /\ pc[t] = "env"
    /\ Return(t, "env_err")
    /\ UNCHANGED <<tuser, existing, tport, log, regVars, envVars>>

\* discover_user_env succeeded; registry.insert(entry) with state Starting.
InsertStarting(t) ==
    /\ pc[t] = "env"
    /\ sessions' = insert(sessions,
            SessionEntry(tuser[t], tport[t], 0, "Starting", now, PeerAddr(t), NoUnit))
    /\ Goto(t, "ins_save")
    /\ Logged(t, "insert")
    /\ UNCHANGED <<tuser, existing, tport, result, stateFile, backends, envVars>>

\* registry.save_state() after the insert
InsertSave(t) ==
    /\ pc[t] = "ins_save"
    /\ stateFile' = save_state(sessions)
    /\ Goto(t, "spawn")
    /\ UNCHANGED <<tuser, existing, tport, result, log, sessions, backends, envVars>>

\* spawner::spawn_user_server succeeds: the unit now runs.
SpawnOk(t) ==
    /\ pc[t] = "spawn"
    /\ CanSpawn(backends, tuser[t])
    /\ backends' = spawn_user_server(backends, tuser[t], tport[t])
    /\ Goto(t, "unit_get")
    /\ Logged(t, "spawn")
    /\ UNCHANGED <<tuser, existing, tport, result, sessions, stateFile, envVars>>

\* spawner::spawn_user_server fails; `?` returns at once.
SpawnFail(t) ==
    /\ pc[t] = "spawn"
    /\ Return(t, "spawn_err")
    /\ UNCHANGED <<tuser, existing, tport, log, regVars, envVars>>

\* registry.get(&username) before the unit name is stored
UnitGet(t) ==
    /\ pc[t] = "unit_get"
    /\ existing' = [existing EXCEPT ![t] = get(sessions, tuser[t])]
    /\ Goto(t, IF tuser[t] \in DOMAIN sessions THEN "unit_ins" ELSE "wait")
    /\ UNCHANGED <<tuser, tport, result, log, regVars, envVars>>

\* entry.unit_name = unit_name; entry.state = Starting; registry.insert(entry)
UnitInsert(t) ==
    /\ pc[t] = "unit_ins"
    /\ sessions' = insert(sessions,
            [existing[t] EXCEPT !.unit_name = UnitName(tuser[t]),
                                !.state = "Starting"])
    /\ existing' = [existing EXCEPT ![t] = NoEntry]
    /\ Goto(t, "wait")
    /\ UNCHANGED <<tuser, tport, result, log, stateFile, backends, envVars>>

\* spawner::wait_for_server_ready(port, 30 s)?
WaitReady(t) ==
    /\ pc[t] = "wait"
    /\ \/ /\ Listening(backends, tport[t])
          /\ Goto(t, "act")
          /\ Logged(t, "ready")
          /\ UNCHANGED result
       \/ /\ ~Listening(backends, tport[t])
          /\ Return(t, "ready_timeout")
          /\ UNCHANGED log
    /\ UNCHANGED <<tuser, existing, tport, regVars, envVars>>

\* registry.set_state(&username, Active) of the new session
Activate(t) ==
    /\ pc[t] = "act"
    /\ sessions' = set_state(sessions, tuser[t], "Active")
    /\ Goto(t, "act_save")
    /\ Logged(t, "active")
    /\ UNCHANGED <<tuser, existing, tport, result, stateFile, backends, envVars>>

\* registry.save_state() of the new session
ActivateSave(t) ==
    /\ pc[t] = "act_save"
    /\ stateFile' = save_state(sessions)
    /\ Goto(t, "proxy")
    /\ UNCHANGED <<tuser, existing, tport, result, log, sessions, backends, envVars>>


\* The two places a proxy_connection call is made from: the create path
\* ("proxy") and the OnePerUser / Starting paths ("re_proxy").
OnCreatePath(p) == p \in {"proxy", "proxying"}

\* Step 5: proxy_connection connects to 127.0.0.1:port.  On the create
\* path handle_disconnect follows whatever the result; on the other paths
\* it is inside .map(), which an Err skips.
ProxyConnect(t) ==
    /\ pc[t] \in {"proxy", "re_proxy"}
    /\ \/ /\ Listening(backends, tport[t])
          /\ Goto(t, IF OnCreatePath(pc[t]) THEN "proxying" ELSE "re_proxying")
          /\ Logged(t, "proxy")
          /\ UNCHANGED result
       \/ /\ ~Listening(backends, tport[t])
          /\ IF OnCreatePath(pc[t])
             THEN /\ Goto(t, "disc_state")
                  /\ result' = [result EXCEPT ![t] = "proxy_err"]
             ELSE Return(t, "proxy_err")
          /\ UNCHANGED log
    /\ UNCHANGED <<tuser, existing, tport, regVars, envVars>>

\* copy_bidirectional ends: EOF (ok) or an I/O error.
ProxyEnd(t) ==
    /\ pc[t] \in {"proxying", "re_proxying"}
    /\ \E ok \in BOOLEAN :
          IF ok \/ OnCreatePath(pc[t])
          THEN /\ Goto(t, "disc_state")
               /\ result' = [result EXCEPT ![t] = IF ok THEN "ok" ELSE "proxy_err"]
          ELSE Return(t, "proxy_err")
    /\ UNCHANGED <<tuser, existing, tport, log, regVars, envVars>>

\* handle_disconnect's task: registry.set_state(&username, Idle)
DisconnectSetState(t) ==
    /\ pc[t] = "disc_state"
    /\ sessions' = set_state(sessions, tuser[t], "Idle")
    /\ Goto(t, "disc_addr")
    /\ Logged(t, "idle")
    /\ idleSince' = [u \in DOMAIN idleSince \cup {tuser[t]} |->
                        IF u = tuser[t] THEN now ELSE idleSince[u]]
    /\ UNCHANGED <<tuser, existing, tport, result, stateFile, backends, config,
                   phase, now, sweepVars, termVars, connVars, serverVars>>

\* handle_disconnect's task: registry.set_client_addr(&username, "")
DisconnectSetAddr(t) ==
    /\ pc[t] = "disc_addr"
    /\ sessions' = set_client_addr(sessions, tuser[t], NoAddr)
    /\ Goto(t, "disc_save")
    /\ UNCHANGED <<tuser, existing, tport, result, log, stateFile, backends, envVars>>

\* handle_disconnect's task: registry.save_state()
DisconnectSave(t) ==
    /\ pc[t] = "disc_save"
    /\ stateFile' = save_state(sessions)
    /\ Goto(t, "done")
    /\ Logged(t, "saved")
    /\ UNCHANGED <<tuser, existing, tport, result, sessions, backends, envVars>>

(***************************************************************************)
(* broker.rs: idle_cleanup_task.                                           *)
(***************************************************************************)
\* What neither the sweep nor terminate_session changes.
fixedVars == <<config, phase, now, taskVars, connVars, serverVars, histVars>>

\* interval.tick(): one more sweep period has passed;
\* registry.idle_sessions(idle_timeout_secs)
IdleScan(idle_timeout_secs, last) ==
    /\ phase = "run"
    /\ sweepPc = "tick"
    /\ now < last
    /\ Events < MaxEvents
    /\ now' = now + 1
    /\ sweepList' = idle_sessions(sessions, idle_timeout_secs, now')
    /\ sweepPc' = "loop"
    /\ UNCHANGED <<sweepUnit, regVars, termVars, config, phase, taskVars, connVars, serverVars, histVars>>

\* The sweep of a broker whose idle timeout is shorter than a sweep period.
SweepScan == IdleScan(IdleTimeoutSecs, MaxNow)

\* The sweep of a broker whose idle timeout is LongIdleTimeout periods.
SweepScanLong == IdleScan(LongIdleTimeout, MaxLongNow)

\* for username in idle_users: registry.remove(&username)
SweepRemove ==
    /\ sweepPc = "loop"
    /\ \E u \in sweepList :
          /\ sweepList' = sweepList \ {u}
          /\ sessions' = remove(sessions, u)
          /\ sweepUnit' = get(sessions, u).unit_name
          /\ sweepPc' = IF u \in DOMAIN sessions THEN "stop" ELSE "loop"
    /\ UNCHANGED <<stateFile, backends, termVars, fixedVars>>

\* spawner::stop_user_server(&entry.unit_name) of the removed entry
SweepStop ==
    /\ sweepPc = "stop"
    /\ backends' = stop_user_server(backends, sweepUnit)
    /\ sweepUnit' = NoUnit
    /\ sweepPc' = "loop"
    /\ UNCHANGED <<sweepList, sessions, stateFile, termVars, fixedVars>>

\* registry.save_state() after the loop
SweepSave ==
    /\ sweepPc = "loop"
    /\ sweepList = {}
    /\ stateFile' = save_state(sessions)
    /\ sweepPc' = "tick"
    /\ UNCHANGED <<sweepList, sweepUnit, sessions, backends, termVars, fixedVars>>

(***************************************************************************)
(* dbus.rs: BrokerInterface::terminate_session.                            *)
(***************************************************************************)
\* self.registry.remove(username); false when there is no such session.
TerminateRemove(u) ==
    /\ phase = "run"
    /\ termPc = "idle"
    /\ termCalls < MaxTerminateCalls
    /\ Events < MaxEvents
    /\ termCalls' = termCalls + 1
    /\ sessions' = remove(sessions, u)
    /\ termUnit' = get(sessions, u).unit_name
    /\ termPc' = IF u \in DOMAIN sessions THEN "stop" ELSE "idle"
    /\ UNCHANGED <<stateFile, backends, sweepVars, fixedVars>>

\* spawner::stop_user_server(&entry.unit_name)
TerminateStop ==
    /\ termPc = "stop"
    /\ backends' = stop_user_server(backends, termUnit)
    /\ termUnit' = NoUnit
    /\ termPc' = "save"
    /\ UNCHANGED <<termCalls, sessions, stateFile, sweepVars, fixedVars>>

\* self.registry.save_state(); true
TerminateSave ==
    /\ termPc = "save"
    /\ stateFile' = save_state(sessions)
    /\ termPc' = "idle"
    /\ UNCHANGED <<termCalls, termUnit, sessions, backends, sweepVars, fixedVars>>

(***************************************************************************)
(* Specifications.                                                         *)
(***************************************************************************)
RouteStep(t) ==
    \/ Accept(t)
    \/ Lookup(t)
    \/ StartingWait(t)
    \/ ReSetState(t)
    \/ ReSetAddr(t)
    \/ ReSave(t)
    \/ ReplaceStop(t)
    \/ Remove(t)
    \/ VerifyFail(t)
    \/ Alloc(t)
    \/ DiscoverFail(t)
    \/ InsertStarting(t)
    \/ InsertSave(t)
    \/ SpawnOk(t)
    \/ SpawnFail(t)
    \/ UnitGet(t)
    \/ UnitInsert(t)
    \/ WaitReady(t)
    \/ Activate(t)
    \/ ActivateSave(t)
    \/ ProxyConnect(t)
    \/ ProxyEnd(t)
    \/ DisconnectSetState(t)
    \/ DisconnectSetAddr(t)
    \/ DisconnectSave(t)

Next ==
    \/ LoadState
    \/ \E u \in SystemUsers : BackendListen(u)
    \/ \E t \in Tasks : RouteStep(t)
    \/ SweepScan
    \/ SweepRemove
    \/ SweepStop
    \/ SweepSave
    \/ \E u \in SystemUsers : TerminateRemove(u)
    \/ TerminateStop
    \/ TerminateSave

Init == BrokerInit /\ ConnOff /\ DisplayOff /\ DaemonOff /\ IoOff

\* The broker: route tasks, the idle sweep and TerminateSession interleaved.
Spec == Init /\ [][Next]_vars

ConnSpecInit == ConnInit /\ BrokerOff /\ DisplayOff /\ DaemonOff /\ IoOff

\* One client connection as a byte stream.
ConnSpec == ConnSpecInit /\ [][ConnNext]_vars

(***************************************************************************)
(* A session that is reconnected to and left again while the sweep runs    *)
(* with an idle timeout of LongIdleTimeout sweep periods.                  *)
(***************************************************************************)
\* A restart that found one idle session, under the OnePerUser policy.
IdleInit ==
    /\ Init
    /\ stateFile = {to_json(e) : e \in IdleFile.entries}
    /\ config = Config(MaxPorts, MaxSessionLimit, "OnePerUser")

\* Reconnections, disconnections and the sweep after that restart.
IdleSpec ==
    /\ IdleInit
    /\ [][\/ LoadState
          \/ \E t \in Tasks : Accept(t)
          \/ \E t \in Tasks : Lookup(t)
          \/ \E t \in Tasks : ReSetState(t)
          \/ \E t \in Tasks : ReSetAddr(t)
          \/ \E t \in Tasks : ReSave(t)
          \/ \E t \in Tasks : ProxyConnect(t)
          \/ \E t \in Tasks : ProxyEnd(t)
          \/ \E t \in Tasks : DisconnectSetState(t)
          \/ \E t \in Tasks : DisconnectSetAddr(t)
          \/ \E t \in Tasks : DisconnectSave(t)
          \/ SweepScanLong
          \/ SweepRemove
          \/ SweepStop
          \/ SweepSave]_vars

(***************************************************************************)
(* allocate_port called by route tasks on any registry content a state     *)
(* file can restore, under any port range and session limit.               *)
(***************************************************************************)
AllocUsers == {UserA, UserB, UserC}

\* The ports of the widest range and the one above it.
AllocPorts == PortBase..(PortBase + MaxPorts)

AllocLimits == 1..(MaxSessionLimit + 1)

AllocInit ==
    /\ \E ports \in 1..MaxPorts, limit \in AllocLimits :
          config = Config(ports, limit, "OnePerUser")
    /\ \E D \in SUBSET AllocUsers : \E held \in [D -> AllocPorts] :
          \E active \in SUBSET D :
             /\ Cardinality(active) <= 1
             /\ sessions = [u \in D |->
                   SessionEntry(u, held[u], 0,
                                IF u \in active THEN "Active" ELSE "Idle",
                                0, NoAddr, UnitName(u))]
    /\ stateFile = {}
    /\ backends = [u \in {} |-> 0]
    /\ phase = "run"
    /\ now = 0
    /\ pc = [t \in Tasks |-> "alloc"]
    /\ tuser = [t \in Tasks |-> UserA]
    /\ existing = [t \in Tasks |-> NoEntry]
    /\ tport = [t \in Tasks |-> 0]
    /\ result = [t \in Tasks |-> ""]
    /\ log = [t \in Tasks |-> <<>>]
    /\ sweepPc = "tick"
    /\ sweepList = {}
    /\ sweepUnit = NoUnit
    /\ termPc = "idle"
    /\ termCalls = 0
    /\ termUnit = NoUnit
    /\ idleSince = EmptyMap
    /\ ConnOff /\ DisplayOff /\ DaemonOff /\ IoOff

AllocSpec == AllocInit /\ [][\E t \in Tasks : Alloc(t)]_vars

(***************************************************************************)
(* Session creation on a broker that starts with an empty registry, with   *)
(* every spawned task and the sweep's timer scheduled: tokio runs a task   *)
(* that is ready, so a step that stays possible is eventually taken.       *)
(***************************************************************************)
StartInit ==
    /\ Init
    /\ stateFile = {}
    /\ config = Config(MaxPorts, MaxSessionLimit, "OnePerUser")

\* interval.tick() of a sweep that never stops; the clock is followed up to
\* MaxNow and stands still from there on.
SweepTick ==
    /\ phase = "run"
    /\ sweepPc = "tick"
    /\ now' = IF now < MaxNow THEN now + 1 ELSE now
    /\ sweepList' = idle_sessions(sessions, IdleTimeoutSecs, now')
    /\ sweepPc' = "loop"
    /\ UNCHANGED <<sweepUnit, regVars, termVars, config, phase, taskVars, connVars, serverVars, histVars>>

\* The steps of one spawned route task after its connection was accepted.
StartRoute(t) ==
    \/ Lookup(t)
    \/ StartingWait(t)
    \/ ReSetState(t)
    \/ ReSetAddr(t)
    \/ ReSave(t)
    \/ VerifyFail(t)
    \/ Alloc(t)
    \/ DiscoverFail(t)
    \/ InsertStarting(t)
    \/ InsertSave(t)
    \/ SpawnOk(t)
    \/ SpawnFail(t)
    \/ UnitGet(t)
    \/ UnitInsert(t)
    \/ WaitReady(t)
    \/ Activate(t)
    \/ ActivateSave(t)
    \/ ProxyConnect(t)
    \/ ProxyEnd(t)
    \/ DisconnectSetState(t)
    \/ DisconnectSetAddr(t)
    \/ DisconnectSave(t)

\* The steps of idle_cleanup_task.
StartSweep ==
    \/ SweepTick
    \/ SweepRemove
    \/ SweepStop
    \/ SweepSave

\* Route tasks and the idle sweep; no TerminateSession call is made.
StartNext ==
    \/ LoadState
    \/ \E u \in SystemUsers : BackendListen(u)
    \/ \E t \in Tasks : Accept(t)
    \/ \E t \in Tasks : StartRoute(t)
    \/ StartSweep

\* Every route task that can take a step takes one, the sweep's loop goes
\* on for ever, and a spawned backend that can bind its port does; clients
\* are free not to connect.
StartSpec ==
    /\ StartInit
    /\ [][StartNext]_vars
    /\ WF_vars(LoadState)
    /\ \A t \in Tasks : WF_vars(StartRoute(t))
    /\ WF_vars(StartSweep)
    /\ WF_vars(\E u \in SystemUsers : BackendListen(u))

(***************************************************************************)
(* main.rs: shutdown and restart of the broker over the state file.        *)
(***************************************************************************)
\* A broker that runs with some registry content and no state file yet.
PersistInit ==
    /\ config = Config(MaxPorts, MaxSessionLimit, "OnePerUser")
    /\ phase = "run"
    /\ LET EntriesOf(u) ==
               {SessionEntry(u, port, pid, state, 0, addr, UnitName(u)) :
                   port \in PortBase..(PortBase + MaxPorts - 1),
                   pid \in {0} \cup LivePids \cup DeadPids,
                   state \in {"Starting", "Active", "Idle", "Stopping"},
                   addr \in {NoAddr, PeerAddr(1)}}
           Registries ==
               UNION {[us -> UNION {EntriesOf(u) : u \in us}] : us \in SUBSET SystemUsers}
       IN sessions \in {r \in Registries : \A u \in DOMAIN r : r[u].username = u}
    /\ stateFile = {}
    /\ backends = [u \in {} |-> 0]
    /\ now = 0
    /\ pc = [t \in Tasks |-> "idle"]
    /\ tuser = [t \in Tasks |-> <<>>]
    /\ existing = [t \in Tasks |-> NoEntry]
    /\ tport = [t \in Tasks |-> 0]
    /\ result = [t \in Tasks |-> ""]
    /\ log = [t \in Tasks |-> <<>>]
    /\ sweepPc = "tick"
    /\ sweepList = {}
    /\ sweepUnit = NoUnit
    /\ termPc = "idle"
    /\ termCalls = 0
    /\ termUnit = NoUnit
    /\ idleSince = EmptyMap
    /\ ConnOff
    /\ DisplayOff
    /\ DaemonOff
    /\ IoOff

\* SIGINT / SIGTERM: registry.save_state() before the process exits.
Shutdown ==
    /\ phase = "run"
    /\ stateFile' = save_state(sessions)
    /\ phase' = "stopped"
    /\ UNCHANGED <<config, sessions, backends, now, taskVars, sweepVars, termVars, connVars, serverVars, histVars>>

\* The next start: SessionRegistry::new, then registry.load_state().
Restart ==
    /\ phase = "stopped"
    /\ sessions' = load_state(EmptyMap, stateFile)
    /\ phase' = "run"
    /\ UNCHANGED <<config, stateFile, backends, now, taskVars, sweepVars, termVars, connVars, serverVars, histVars>>

\* The registry saved at shutdown and loaded at the next start.
PersistSpec == PersistInit /\ [][Shutdown \/ Restart]_vars

(***************************************************************************)
(* Properties of one connection's byte stream (ConnSpec).                  *)
(***************************************************************************)
\* C6: the bytes delivered to the per-user server are, at every moment, a
\* prefix of the bytes the client sent, in the client's order; they begin
\* with the Connection Request exactly as it was read (the 4-byte TPKT
\* header followed by the payload), and no later client byte reaches the
\* server before the whole of that packet.
C6_InitialPacketPreserved ==
    /\ IsPrefix(serverIn, clientOut)
    /\ cr.ok => cr.raw_packet = SubSeq(clientOut, 1, cr.consumed)
    /\ cpc \in {"read", "route", "connect", "write", "dropped", "panicked"}
           => serverIn = <<>>
    /\ cpc = "copy" =>
           /\ IsPrefix(cr.raw_packet, serverIn)
           /\ serverIn = SubSeq(clientOut, 1, clientPos)
    /\ Len(serverIn) < Len(cr.raw_packet) => IsPrefix(serverIn, cr.raw_packet)

\* C6 witness: the packet was replayed and client bytes sent after it have
\* been forwarded behind it.
C6_Witness ==
    /\ cpc = "copy"
    /\ cr.ok
    /\ Len(cr.raw_packet) >= MinTpktLength
    /\ Len(serverIn) > Len(cr.raw_packet)

\* C7: a username that cookie extraction returns is non-empty, at most 64
\* characters long and made only of the characters A-Z a-z 0-9 _ . - ; and
\* a cookie value that is empty, longer than 64 or holds any other
\* character yields no username.
C7_UsernameIsSafeAscii ==
    LET IsSafeAscii(b) == IsAsciiAlphanumeric(b) \/ b = 95 \/ b = 46 \/ b = 45
    IN
    /\ (cr.ok /\ cr.username.kind = "some") =>
           /\ cr.username.name # <<>>
           /\ Len(cr.username.name) <= MaxUsernameLen
           /\ \A i \in 1..Len(cr.username.name) : IsSafeAscii(cr.username.name[i])
    /\ (cr.ok /\ cookieValue # NoCookie
           /\ (\/ cookieValue = <<>>
               \/ Len(cookieValue) > MaxUsernameLen
               \/ \E i \in 1..Len(cookieValue) : ~IsSafeAscii(cookieValue[i])))
        => cr.username.kind # "some"

\* C23: a connection whose first packet has a TPKT version other than 3, a
\* TPKT length below 7 or above 8192, a TPDU code other than 0xE, or no
\* valid mstshash cookie (a value of 1 to 64 characters out of
\* A-Z a-z 0-9 _ . -) is dropped at step 1: it never reaches the routing
\* steps, which are the ones that touch the registry, allocate a port and
\* spawn a backend.
C23_InvalidFirstPacketNeverRouted ==
    LET IsSafeAscii(b) == IsAsciiAlphanumeric(b) \/ b = 95 \/ b = 46 \/ b = 45
    IN cpc \notin {"read", "dropped", "panicked"} =>
          /\ Len(clientOut) >= MinTpktLength
          /\ clientOut[1] = TpktVersion
          /\ clientOut[3] * 256 + clientOut[4] >= MinTpktLength
          /\ clientOut[3] * 256 + clientOut[4] <= MaxTpktLength
          /\ clientOut[6] \div 16 = CrTpduCode
          /\ cookieValue # NoCookie
          /\ cookieValue # <<>>
          /\ Len(cookieValue) <= MaxUsernameLen
          /\ \A i \in 1..Len(cookieValue) : IsSafeAscii(cookieValue[i])

(***************************************************************************)
(* Properties of the broker (Spec).                                        *)
(***************************************************************************)
\* C1: in every reachable state of the registry no two session entries
\* hold the same port, whatever the interleaving of route tasks, the idle
\* sweep and TerminateSession.
C1_NoSharedPort ==
    \A u, v \in DOMAIN sessions :
        u # v => sessions[u].port # sessions[v].port

\* C2: in every reachable state the registry holds at most max_sessions
\* entries.
C2_AtMostMaxSessions ==
    Cardinality(DOMAIN sessions) <= config.max_sessions

\* C3: when spawning the per-user server fails, the step that drops the
\* connection leaves no Starting entry for that username in the registry.
C3_SpawnFailureLeavesNoStarting ==
    [][\A t \in Tasks :
          (pc[t] = "spawn" /\ pc'[t] = "done" /\ result'[t] = "spawn_err")
             => get(sessions', tuser[t]).state # "Starting"]_vars

\* C4: when the readiness wait for a newly spawned server times out,
\* handle_connection returns an error and the registry no longer holds an
\* entry for that username.
C4_ReadyTimeoutRemovesEntry ==
    [][\A t \in Tasks :
          (pc[t] = "wait" /\ pc'[t] = "done")
             => /\ result'[t] = "ready_timeout"
                /\ tuser[t] \notin DOMAIN sessions']_vars

\* C5: a connection that reached the proxy phase, on any routing path, does
\* not finish before disconnect(username) has run: the session was marked
\* Idle, its client_addr cleared and the registry saved, whether the proxy
\* ended by EOF or by an error.
C5_DisconnectAfterProxy ==
    \A t \in Tasks :
        (pc[t] = "done" /\ result[t] \in {"ok", "proxy_err"})
           => \E i, j \in 1..Len(log[t]) :
                 i < j /\ log[t][i] = "idle" /\ log[t][j] = "saved"

\* C8: under OnePerUser, a connection whose username has an Active or Idle
\* entry takes the reconnect path with the entry's port; each step of that
\* path starts and stops no backend, adds and removes no entry, leaves every
\* other entry and this entry's port, pid, creation time and unit unchanged,
\* allocates and inserts nothing; it sets the entry Active, then its
\* client_addr to the peer, and proxies only to the port the entry had.
C8_ReconnectReusesSession ==
    [][\A t \in Tasks :
          LET u == tuser[t]
              e == get(sessions, u)
              \* on the reconnect path: an Active or Idle entry was found
              Reconnecting ==
                  /\ pc[t] \in {"re_state", "re_addr", "re_save", "re_proxy",
                                "re_proxying"}
                  /\ (log[t] = <<>> \/ Head(log[t]) = "active")
          IN
          /\ (/\ pc[t] = "lookup" /\ pc'[t] # "lookup"
              /\ config.session_policy = "OnePerUser"
              /\ e.state \in {"Active", "Idle"})
                => /\ pc'[t] = "re_state"
                   /\ tport'[t] = e.port
                   /\ sessions' = sessions
                   /\ backends' = backends
                   /\ log'[t] = <<>>
          /\ (Reconnecting /\ pc'[t] # pc[t])
                => /\ backends' = backends
                   /\ DOMAIN sessions' = DOMAIN sessions
                   /\ \A v \in DOMAIN sessions :
                         IF v = u
                         THEN sessions'[v] =
                                [sessions[v] EXCEPT
                                    !.state = sessions'[v].state,
                                    !.client_addr = sessions'[v].client_addr]
                         ELSE sessions'[v] = sessions[v]
                   /\ tport'[t] = tport[t]
                   /\ (pc[t] = "re_state" /\ u \in DOMAIN sessions)
                         => /\ sessions'[u].state = "Active"
                            /\ pc'[t] = "re_addr"
                   /\ (pc[t] = "re_addr" /\ u \in DOMAIN sessions)
                         => /\ sessions'[u].client_addr = PeerAddr(t)
                            /\ sessions'[u].state = sessions[u].state
                   /\ pc[t] \in {"re_save", "re_proxy", "re_proxying"}
                         => sessions' = sessions
                   /\ pc'[t] = "re_proxying" => Listening(backends, tport[t])
                   /\ \A i \in 1..Len(log'[t]) :
                         log'[t][i] \notin {"alloc", "insert", "spawn", "stop", "remove"}
      ]_vars

\* C8 witness: a connection reconnected under OnePerUser is being proxied to
\* the port of the entry it found, which is Active with the peer's address.
C8_Witness ==
    \E t \in Tasks :
        /\ config.session_policy = "OnePerUser"
        /\ pc[t] = "re_proxying"
        /\ log[t] = <<"active", "proxy">>
        /\ tuser[t] \in DOMAIN sessions
        /\ sessions[tuser[t]].state = "Active"
        /\ sessions[tuser[t]].client_addr = PeerAddr(t)
        /\ sessions[tuser[t]].port = tport[t]

\* The operations of a replacement, in the order the claim gives them.
ReplaceOrder ==
    <<"stop", "remove", "alloc", "insert", "spawn", "ready", "active", "proxy">>

C10_FullRegistryRejects ==
    [][\A t \in Tasks :
          LET range == config.port_range_start..config.port_range_end
              full == \/ Cardinality(DOMAIN sessions) >= config.max_sessions
                      \/ \A p \in range : \E v \in DOMAIN sessions : sessions[v].port = p
          IN (/\ pc[t] = "alloc" /\ pc'[t] # "alloc"
              /\ tuser[t] \in SystemUsers
              /\ full)
                => /\ ~allocate_port(sessions, config).ok
                   /\ pc'[t] = "done"
                   /\ result'[t] = "alloc_err"
                   /\ sessions' = sessions
                   /\ stateFile' = stateFile
                   /\ backends' = backends
                   /\ log'[t] = log[t]
                   /\ \A i \in 1..Len(log'[t]) : log'[t][i] \notin {"insert", "spawn"}
      ]_vars

\* C10 witness: a connection for a username with no entry was rejected by
\* the allocation while other users' sessions filled the registry.
C10_Witness ==
    \E t \in Tasks :
        /\ pc[t] = "done"
        /\ result[t] = "alloc_err"
        /\ log[t] = <<>>
        /\ tuser[t] \notin DOMAIN sessions
        /\ DOMAIN sessions # {}

\* C12: every entry the idle sweep removes from the registry is, at the
\* moment it is removed, in state Idle with now - created_at greater than the
\* idle timeout; entries in Starting, Active or Stopping are left untouched.
C12_SweepRemovesOnlyIdle ==
    [][(sweepPc = "loop" /\ sweepPc' = "stop")
          => \A u \in DOMAIN sessions \ DOMAIN sessions' :
                /\ sessions[u].state = "Idle"
                /\ idle_for(now, sessions[u].created_at) > IdleTimeoutSecs
      ]_vars

\* C14: every registry entry whose state is not Starting carries a non-zero
\* pid, the process id of its per-user backend.
C14_PidKnownUnlessStarting ==
    \A u \in DOMAIN sessions :
        sessions[u].state # "Starting" => sessions[u].pid # 0

\* C13: the idle sweep selects a session for termination only when more
\* than the idle timeout has passed since the session's last disconnect:
\* every session on the sweep's list that handle_disconnect has set Idle at
\* some time was set Idle more than the idle timeout before the sweep.
C13_SweptOnlyAfterIdleTimeout ==
    sweepPc = "loop" =>
        \A u \in sweepList \cap DOMAIN idleSince :
            now - idleSince[u] > LongIdleTimeout

\* C25: a connection with cookie username u is only ever proxied to a
\* backend spawned for u: whenever a route task's readiness probe or its
\* proxy connect succeeds on its port, the server listening on that port is
\* the backend of the task's own username.
C25_RoutedOnlyToOwnBackend ==
    [][\A t \in Tasks :
          (\/ pc[t] \in {"wait", "st_wait"} /\ pc'[t] \in {"act", "re_state"}
           \/ pc[t] \in {"proxy", "re_proxy"} /\ pc'[t] \in {"proxying", "re_proxying"})
             => \A u \in DOMAIN backends :
                   (backends[u].port = tport[t] /\ backends[u].listening)
                      => u = tuser[t]]_vars

\* C26: a session is Idle only while no connection for its username is
\* being proxied, and no step of the idle sweep removes the entry or stops
\* the backend of a username that has a connection being proxied.
C26_IdleOnlyWhileNotProxied ==
    /\ [](\A t \in Tasks :
            (pc[t] \in {"proxying", "re_proxying"} /\ tuser[t] \in DOMAIN sessions)
               => sessions[tuser[t]].state # "Idle")
    /\ [][<<sweepPc, sweepList>>' # <<sweepPc, sweepList>>
            => \A t \in Tasks :
                  pc[t] \in {"proxying", "re_proxying"}
                     => /\ tuser[t] \in DOMAIN sessions => tuser[t] \in DOMAIN sessions'
                        /\ tuser[t] \in DOMAIN backends => tuser[t] \in DOMAIN backends']_vars

\* C27: every entry in state Starting eventually becomes Active or is
\* removed, and an entry left Active by a connection that failed (readiness
\* timeout or proxy error) eventually becomes Idle or is removed.
C27_StartingEventuallyAdvances ==
    \A u \in SystemUsers :
       /\ (u \in DOMAIN sessions /\ sessions[u].state = "Starting")
             ~> (u \notin DOMAIN sessions \/ sessions[u].state = "Active")
       /\ (/\ u \in DOMAIN sessions
           /\ sessions[u].state = "Active"
           /\ \E t \in Tasks : /\ tuser[t] = u
                               /\ pc[t] = "done"
                               /\ result[t] \in {"ready_timeout", "proxy_err"})
             ~> (u \notin DOMAIN sessions \/ sessions[u].state = "Idle")

\* C28: for each username at most one session creation is in progress: no
\* two route tasks for the same username are both between a successful
\* allocate_port and the end of the readiness wait.
C28_OneCreationPerUser ==
    \A t1, t2 \in Tasks :
       (/\ t1 # t2
        /\ pc[t1] \in {"env", "ins_save", "spawn", "unit_get", "unit_ins", "wait"}
        /\ pc[t2] \in {"env", "ins_save", "spawn", "unit_get", "unit_ins", "wait"})
          => tuser[t1] # tuser[t2]

\* C29: no orphan backends: once the registry is loaded, every running
\* backend is referenced by a registry entry of its username that carries
\* its unit name, unless the route task that spawned it is about to store
\* the unit name or a removal of its entry is about to stop it.
C29_NoOrphanBackend ==
    phase = "run" =>
       \A u \in DOMAIN backends :
          \/ u \in DOMAIN sessions /\ sessions[u].unit_name = UnitName(u)
          \/ \E t \in Tasks : /\ tuser[t] = u
                              /\ \/ pc[t] \in {"unit_get", "unit_ins"}
                                 \/ pc[t] = "rp_stop" /\ existing[t].unit_name = UnitName(u)
          \/ termPc = "stop" /\ termUnit = UnitName(u)
          \/ sweepPc = "stop" /\ sweepUnit = UnitName(u)

\* C30: allocate_port returns the smallest port of the configured range
\* that no entry holds, fails exactly when the registry has max_sessions
\* entries or more or every port of the range is held, and leaves the
\* registry as it was.
C30_AllocatePortSmallestFree ==
    [][\A t \in Tasks :
          (pc[t] = "alloc" /\ pc'[t] # "alloc") =>
             LET free == {p \in config.port_range_start..config.port_range_end :
                             \A u \in DOMAIN sessions : sessions[u].port # p}
                 full == Cardinality(DOMAIN sessions) >= config.max_sessions
             IN /\ sessions' = sessions
                /\ (pc'[t] = "env") <=> (~full /\ free # {})
                /\ pc'[t] = "env" =>
                      /\ tport'[t] \in free
                      /\ \A p \in free : tport'[t] <= p
                /\ pc'[t] # "env" =>
                      pc'[t] = "done" /\ result'[t] = "alloc_err"]_vars

\* allocate_port has skipped the held first port of the range and returned
\* the next one.
C30_Witness ==
    /\ pc[1] = "env"
    /\ tport[1] = config.port_range_start + 1
    /\ \E u \in DOMAIN sessions : sessions[u].port = config.port_range_start
    /\ \E u \in DOMAIN sessions : sessions[u].state = "Idle"

\* C31: locks are taken in the order SessionRegistry, EgfxInner,
\* DisplayChannels: no thread takes a mutex while it holds one that comes
\* later in that order; in particular EgfxInner is never taken by a holder
\* of DisplayChannels.
C31_LockOrder ==
    [][\A th \in Threads : \A l \in Mutexes :
          (locks.holder[l] # th /\ locks'.holder[l] = th)
             => \A m \in Mutexes :
                   locks.holder[m] = th => LockRank[m] < LockRank[l]]_vars

\* C32: no set of threads waits in a cycle for EgfxInner and
\* DisplayChannels (every thread of the set is at a lock call on a mutex
\* held by a thread of the set), and no thread holds EgfxInner at the
\* moment it sends an event on the server event channel.
C32_NoDeadlock ==
    /\ [](\A S \in SUBSET Threads :
            S # {} =>
               \E th \in S :
                  \/ locks.at[th] = NoCall
                  \/ StepOf(th).k # "acq"
                  \/ locks.holder[StepOf(th).l] \notin S)
    /\ [][\A th \in Threads :
            (locks.at[th] # NoCall /\ StepOf(th).k = "send" /\ locks'.at[th] # locks.at[th])
               => locks.holder["egfx"] # th]_vars

\* The updates task is about to send a frame's event, having let go of
\* EgfxInner, which the bridge holds by now and the event-sender setter
\* waits for.
C32_Witness ==
    /\ locks.at["updates"] # NoCall
    /\ StepOf("updates").k = "send"
    /\ locks.holder["egfx"] = "bridge"
    /\ locks.at["setter"] # NoCall
    /\ StepOf("setter") = Acq("egfx")

\* C33: the reset made by updates() replaces the pipeline server and clears
\* ready, surface_id, dvc_channel_id, supports_avc420 and needs_keyframe,
\* leaves width, height and the event sender as they were, and from then on
\* send_frame returns false for as long as the channel is not ready.
C33_ResetEffect ==
    /\ [][(display.egfx /\ display.event_rx # {} /\ display'.event_rx = {}) =>
            /\ shared'.server = NewPipeline
            /\ ~shared'.ready
            /\ shared'.surface_id = {}
            /\ shared'.dvc_channel_id = {}
            /\ ~shared'.supports_avc420
            /\ ~shared'.needs_keyframe
            /\ shared'.width = shared.width
            /\ shared'.height = shared.height
            /\ shared'.event_tx = shared.event_tx]_vars
    /\ [](~shared.ready =>
            \A accepted \in BOOLEAN, delivered \in BOOLEAN :
               ~send_frame(shared, "idr", accepted, delivered).ret)

\* A second connection was reset after the first one had been resized: the
\* resize event is still the latest one sent, its keyframe flag is gone.
C33_Witness ==
    /\ updates.live
    /\ sent = <<"reset">>
    /\ ~shared.needs_keyframe
    /\ ~shared.ready
    /\ shared.server = NewPipeline
    /\ shared.event_tx # {}
    /\ <<shared.width, shared.height>> = <<2, 1>>

\* C34: a resize to other dimensions stores them; on a Ready channel with an
\* event sender it also sets needs_keyframe, leaves a new surface of the new
\* size mapped in the pipeline and recorded in surface_id, and emits the PDUs
\* as one event; on any other channel it leaves ready, surface_id and
\* needs_keyframe alone and emits nothing.
C34_ResizeEffect ==
    [][(shared'.width # shared.width \/ shared'.height # shared.height)
          => IF shared.ready /\ shared.event_tx # {}
             THEN /\ shared'.needs_keyframe
                  /\ shared'.surface_id # {}
                  /\ shared'.server.surface = {<<shared'.width, shared'.height>>}
                  /\ sent' = <<"reset">>
             ELSE /\ shared'.ready = shared.ready
                  /\ shared'.surface_id = shared.surface_id
                  /\ shared'.needs_keyframe = shared.needs_keyframe
                  /\ sent' = <<>>]_vars

\* The state of the channel, read off EgfxInner: Closed (and Stopped) with no
\* channel id, Opened with one, Ready once the pipeline is, SurfaceMapped
\* with a surface id.
Phase(inner) ==
    IF inner.dvc_channel_id = {} THEN "Closed"
    ELSE IF ~inner.ready THEN "Opened"
    ELSE IF inner.surface_id = {} THEN "Ready"
    ELSE "SurfaceMapped"

PhaseRank == [Closed |-> 0, Opened |-> 1, Ready |-> 2, SurfaceMapped |-> 3]

C36_Avc420OnlyIfNegotiated == shared.supports_avc420 => shared.server.avc420

\* C37: in every state of EgfxInner a surface id is recorded only while the
\* channel is ready and its channel id is recorded.
C37_SurfaceImpliesChannel ==
    shared.surface_id # {} => shared.ready /\ shared.dvc_channel_id # {}

\* C38: whenever try_send_egfx_frame sends a captured frame through
\* send_frame, the frame has the size of the surface the pipeline holds and
\* of the encoder that produced it.
C38_FrameMatchesSurface ==
    (updates.live /\ updates.polling)
       => \A size \in Sizes : \A lib \in LibOutcomes(shared) :
             LET r == try_send_egfx_frame(display.egfx, shared, updates, size, lib)
             IN r.ret => /\ r.inner.server.surface = {size}
                         /\ <<r.upd.encoder_width, r.upd.encoder_height>> = size

\* C39: cursors come out in capture order: a cursor buffered in
\* pending_cursor is not replaced by the cursor of a later event, and no
\* cursor of a later event is returned while an earlier one is buffered.
C39_CursorsInCaptureOrder ==
    [][/\ (updates.pending_cursor # {} /\ updates'.pending_cursor # {})
            => updates'.pending_cursor = updates.pending_cursor
       /\ (updates.pending_cursor # {} /\ returned' # returned
              /\ returned'.kind = "cursor")
            => /\ returned'.cursor \in updates.pending_cursor
               /\ updates'.pending_cursor = {}]_vars

\* The events a turn of the loop added to the output channel.
Published == SubSeq(comp'.output_tx.queue, Len(comp.output_tx.queue) + 1,
                    Len(comp'.output_tx.queue))

\* C40: the compositor loop ends once all monitor channels are closed or the
\* output channel is dropped; a turn of the loop publishes at most one
\* frame, of the size of the monitors' bounding box and with a sequence
\* number above that of the frame composed before.
C40_CompositorTerminates ==
    /\ ((\A i \in DOMAIN comp.rx : ~comp.rx[i].open) \/ ~comp.output_tx.open)
          ~> (comp.pc = "done")
    /\ [][(comp.pc = "poll" /\ comp'.pc = "sleep")
            => LET frames == {k \in DOMAIN Published : Published[k].kind = "frame"}
               IN /\ Cardinality(frames) <= 1
                  /\ \A k \in frames :
                        /\ <<Published[k].width, Published[k].height>>
                              = bounding_box(comp.infos)
                        /\ Published[k].sequence > comp.sequence]_vars

(***************************************************************************)
(* Properties of the state file (PersistSpec).                             *)
(***************************************************************************)
\* C11: save_state followed by load_state into an empty registry gives back
\* the saved entries, field for field, for every entry whose pid is alive,
\* and drops exactly the entries whose pid is not alive; when all pids are
\* alive the reloaded registry equals the saved one.
C11_SaveLoadRoundTrip ==
    [][/\ (phase = "run" /\ phase' = "stopped")
            => /\ sessions' = sessions
               /\ Cardinality(stateFile') = Cardinality(DOMAIN sessions)
       /\ (phase = "stopped" /\ phase' = "run")
            => LET live == {u \in DOMAIN sessions : is_pid_alive(sessions[u].pid)}
               IN /\ DOMAIN sessions' = live
                  /\ \A u \in live : sessions'[u] = sessions[u]
                  /\ (\A u \in DOMAIN sessions : sessions[u].pid \notin DeadPids)
                        => sessions' = sessions
      ]_vars

\* C11 witness: a registry was saved and reloaded; an entry with a live pid
\* and a client address came back, an entry with a dead pid did not.
C11_Witness ==
    /\ phase = "run"
    /\ Cardinality(stateFile) = 2
    /\ \E j \in stateFile : j[3] \in DeadPids /\ j[1] \notin DOMAIN sessions
    /\ \E u \in DOMAIN sessions :
          /\ sessions[u].pid \in LivePids
          /\ sessions[u].client_addr = PeerAddr(1)
          /\ to_json(sessions[u]) \in stateFile

(***************************************************************************)
(* Properties of the RDP server's display (DisplaySpec, FallbackSpec).     *)
(***************************************************************************)
\* C15: send_frame returns true only if the surface is mapped, the event
\* sender is registered, the pipeline server is not in backpressure and it
\* accepted the frame; under backpressure it returns false and dispatches no
\* event.  In every step of next_update a frame event is dispatched only
\* with surface, sender and no backpressure.
C15_SendFrameOnlyWhenReady ==
    /\ [](\A frame \in {"idr", "p"}, accepted \in BOOLEAN, delivered \in BOOLEAN :
            LET r == send_frame(shared, frame, accepted, delivered)
            IN /\ r.ret => /\ shared.surface_id # {}
                           /\ shared.event_tx # {}
                           /\ ~shared.server.should_backpressure
                           /\ accepted
               /\ shared.server.should_backpressure => ~r.ret /\ r.events = <<>>)
    /\ [][(updates.polling /\ sent' # sent /\ sent'[Len(sent')] \in {"idr", "p"})
            => /\ shared'.surface_id # {}
               /\ shared.event_tx # {}
               /\ ~shared.server.should_backpressure]_vars

\* C15 witness: a frame was skipped while EGFX was not ready, a later frame
\* was dispatched through EGFX, and the pipeline is now in backpressure.
C15_Witness ==
    /\ sent # <<>>
    /\ sent[Len(sent)] \in {"idr", "p"}
    /\ updates.egfx_wait_frames > 0
    /\ shared.server.should_backpressure

\* C16: the first H.264 frame dispatched after a resize of the ready EGFX
\* channel (the ResetGraphics event) is an IDR frame.
C16_KeyframeAfterResize ==
    [][(sent' # sent /\ sent' # <<>>)
         => /\ (sent # <<>> /\ sent[Len(sent)] = "reset") => sent'[1] # "p"
            /\ \A i \in 1..(Len(sent') - 1) :
                  sent'[i] = "reset" => sent'[i + 1] # "p"
      ]_vars

\* C17: next_update returns a bitmap only when no EGFX controller is set,
\* or when EGFX is not ready and EgfxWaitLimit frames have been skipped.
C17_NoBitmapWhileEgfxReady ==
    [][(updates.polling /\ ~updates'.polling /\ returned'.kind = "bitmap")
         => \/ ~display.egfx
            \/ /\ ~(shared.ready /\ shared.supports_avc420)
               /\ updates.egfx_wait_frames >= EgfxWaitLimit
      ]_vars

\* C18: while a cursor is buffered in pending_cursor, the only thing the
\* update stream does is return that cursor from the next call: no capture
\* event is consumed, and the buffered cursor is not replaced.
C18_BufferedCursorReturnedFirst ==
    [][updates.pending_cursor # {}
         => \/ updates' = updates /\ returned' = returned
            \/ /\ ~updates.polling
               /\ updates'.pending_cursor = {}
               /\ returned'.kind = "cursor"
               /\ returned'.cursor \in updates.pending_cursor
      ]_vars

(***************************************************************************)
(* Properties of the daemon's run loop and D-Bus interface (DaemonSpec).   *)
(***************************************************************************)
\* C19: in every pass of the run loop, at startup and after every Reload,
\* the RDP server is started only if auth.enable is set or the bind address
\* is a loopback address; otherwise the pass ends the process with an error
\* and no listener is bound.
C19_ListenOnlyIfAuthOrLoopback ==
    [][/\ daemon'.listening # {}
            => /\ daemon'.listening = {daemon'.cfg.bind}
               /\ daemon'.cfg.auth.enable \/ is_localhost(daemon'.cfg.bind)
       /\ (/\ daemon.pc = "loop"
           /\ daemon' # daemon
           /\ ~daemon.cfg.auth.enable
           /\ ~is_localhost(daemon.cfg.bind))
            => daemon'.pc = "failed" /\ daemon'.listening = {}
      ]_vars

\* C19 witness: after a Reload the loop found a configuration without
\* authentication on a non-loopback address and ended with an error.
C19_Witness ==
    /\ daemon.pc = "failed"
    /\ daemon.reloads > 0
    /\ daemon.listening = {}
    /\ ~daemon.cfg.auth.enable
    /\ ~is_localhost(daemon.cfg.bind)

C21_ZgfxFraming ==
    zgfx.pc = "wrapped" /\ zgfx.messages # <<>> =>
        LET B == combined(zgfx.messages)
            n == BLen(B)
            w == zgfx.out[1]
            N == (n + 65533) \div 65534
            RECURSIVE At(_, _)
            At(b, i) == IF i <= b[1][2] THEN b[1][1] ELSE At(Tail(b), i - b[1][2])
            LE(off, k) ==
                IF k = 2 THEN At(w, off + 1) + 256 * At(w, off + 2)
                ELSE At(w, off + 1) + 256 * At(w, off + 2)
                     + 65536 * At(w, off + 3) + 16777216 * At(w, off + 4)
            RECURSIVE Triples(_, _)
            Triples(off, k) ==
                IF k = 0 THEN <<>>
                ELSE LET size == LE(off, 4)
                     IN <<[size |-> size,
                           flags |-> At(w, off + 5),
                           chunk |-> BTake(BDrop(w, off + 5), size - 1)]>>
                        \o Triples(off + 4 + size, k - 1)
            RECURSIVE Joined(_)
            Joined(ts) == IF ts = <<>> THEN <<>> ELSE BCat(ts[1].chunk, Joined(Tail(ts)))
        IN /\ Len(zgfx.out) = 1
           /\ IF n <= 65534
              THEN /\ w = BCat(<<<<224, 1>>>>, BCat(<<<<4, 1>>>>, B))
                   /\ BLen(w) = n + 2
              ELSE /\ At(w, 1) = 225
                   /\ LE(1, 2) = N % 65536
                   /\ LE(3, 4) = n
                   /\ BLen(w) = 7 + 5 * N + n
                   /\ LET ts == Triples(7, N)
                      IN /\ \A j \in 1..N :
                               /\ ts[j].flags = 4
                               /\ ts[j].size = BLen(ts[j].chunk) + 1
                               /\ BLen(ts[j].chunk) >= 1
                               /\ BLen(ts[j].chunk) <= 65534
                         /\ Joined(ts) = B

\* C21 happens: 130000 bytes were wrapped into two segments whose size
\* fields are 65535 and 64467.
C21_Witness ==
    /\ zgfx.pc = "wrapped"
    /\ BLen(combined(zgfx.messages)) = 130000
    /\ BTake(zgfx.out[1], 7) = Bytes(<<225, 2, 0, 208, 251, 1, 0>>)
    /\ BTake(BDrop(zgfx.out[1], 7), 4) = Bytes(<<255, 255, 0, 0>>)
    /\ BTake(BDrop(zgfx.out[1], 7 + 4 + 65535), 4) = Bytes(<<211, 251, 0, 0>>)

(***************************************************************************)
(* Properties of the lock keys (InputSpec).                                *)
(***************************************************************************)
\* C22 as stated: synchronize_locks with shadow state S and target T injects
\* a press and then a release for exactly the lock keys in which S and T
\* differ, and none when S = T; afterwards the shadow state is T, so that a
\* repeated synchronize has nothing to toggle; and a Press of a lock key
\* through key_press toggles that bit of the shadow state.
C22_LockSync ==
    [][/\ \A T \in LockStates :
            (input'.op = <<"synchronize_locks", T>> /\ input' # input) =>
                LET S == input.lock_state
                    differ == {k \in {KEY_CAPSLOCK, KEY_NUMLOCK, KEY_SCROLLLOCK} :
                                  \E f \in DOMAIN S :
                                      toggle_on_press(S, k)[f] # S[f] /\ S[f] # T[f]}
                    Count(e) == Cardinality({j \in 1..Len(input'.injected) :
                                                input'.injected[j] = e})
                    First(e) == CHOOSE j \in 1..Len(input'.injected) :
                                    input'.injected[j] = e
                IN /\ Len(input'.injected) = 2 * Cardinality(differ)
                   /\ \A k \in differ :
                         /\ Count(<<k - 8, "Press">>) = 1
                         /\ Count(<<k - 8, "Released">>) = 1
                         /\ First(<<k - 8, "Press">>) < First(<<k - 8, "Released">>)
                   /\ input'.lock_state = T
                   /\ locks_to_toggle(input'.lock_state, T) = <<>>
       /\ \A k \in {KEY_CAPSLOCK, KEY_NUMLOCK, KEY_SCROLLLOCK}, code \in Scancodes :
            (rdp_scancode_to_evdev(code, FALSE) = {k}
             /\ input'.op = <<"key_press", code, FALSE>>) =>
                input'.lock_state = toggle_on_press(input.lock_state, k)
      ]_vars

\* C22, amended: the same for an injector whose device has the keyboard
\* capability.  (Without it key_press and synchronize_locks inject nothing
\* and leave the shadow state as it is.)
C22_LockSyncWithKeyboard ==
    [][/\ \A T \in LockStates :
            (input.keyboard /\ input'.op = <<"synchronize_locks", T>> /\ input' # input) =>
                LET S == input.lock_state
                    differ == {k \in {KEY_CAPSLOCK, KEY_NUMLOCK, KEY_SCROLLLOCK} :
                                  \E f \in DOMAIN S :
                                      toggle_on_press(S, k)[f] # S[f] /\ S[f] # T[f]}
                    Count(e) == Cardinality({j \in 1..Len(input'.injected) :
                                                input'.injected[j] = e})
                    First(e) == CHOOSE j \in 1..Len(input'.injected) :
                                    input'.injected[j] = e
                IN /\ Len(input'.injected) = 2 * Cardinality(differ)
                   /\ \A k \in differ :
                         /\ Count(<<k - 8, "Press">>) = 1
                         /\ Count(<<k - 8, "Released">>) = 1
                         /\ First(<<k - 8, "Press">>) < First(<<k - 8, "Released">>)
                   /\ input'.lock_state = T
                   /\ locks_to_toggle(input'.lock_state, T) = <<>>
       /\ \A k \in {KEY_CAPSLOCK, KEY_NUMLOCK, KEY_SCROLLLOCK}, code \in Scancodes :
            (input.keyboard /\ rdp_scancode_to_evdev(code, FALSE) = {k}
             /\ input'.op = <<"key_press", code, FALSE>>) =>
                input'.lock_state = toggle_on_press(input.lock_state, k)
      ]_vars

\* C22 happens: a synchronize toggled two lock keys and the shadow state is
\* the target.
C22_Witness ==
    /\ input.keyboard
    /\ Len(input.op) = 2
    /\ input.op[1] = "synchronize_locks"
    /\ Len(input.injected) = 4
    /\ input.lock_state = input.op[2]

(***************************************************************************)
(* Properties of the display over several connections (ReuseSpec).         *)
(***************************************************************************)
\* C24: the capture event receiver is either in the shared DisplayChannels
\* or held by the one live LiveDisplayUpdates, never both and never
\* neither; updates() succeeds only by moving it out of the channels, and
\* a call made while an updates object is alive fails and changes nothing;
\* dropping the updates object puts the receiver back, so that the next
\* updates() can succeed, cycle after cycle.
C24_ReceiverHeldByOneConnection ==
    /\ [](/\ (display.event_rx = {}) <=> updates.live
          /\ (updates.event_rx # {}) <=> updates.live
          /\ Cardinality(display.event_rx \cup updates.event_rx) = 1)
    /\ [][/\ (~updates.live /\ updates'.live) =>
                 /\ display.event_rx # {}
                 /\ updates'.event_rx = display.event_rx
                 /\ display'.event_rx = {}
          /\ (returned'.kind = "updates_err" /\ returned.kind # "updates_err") =>
                 /\ updates.live
                 /\ UNCHANGED <<shared, display, updates>>
          /\ (updates.live /\ ~updates'.live) =>
                 /\ display'.event_rx = updates.event_rx
                 /\ display'.event_rx # {}
                 /\ UNCHANGED shared
         ]_vars

\* C24 happens: a second updates() failed while a connection was alive, and
\* that connection has since been dropped and the receiver is back.
C24_Witness ==
    /\ returned.kind = "updates_err"
    /\ ~updates.live
    /\ display.event_rx = {"rx"}

=============================================================================
